---------------------------- MODULE Spec2Model ----------------------------
(***************************************************************************)
(* Model of the ZULF NMR simulation core (src/src/core/TwoD_simulation.py). *)
(*                                                                         *)
(* Matrices are held as words over operator symbols: a word <<a, b, c>>    *)
(* stands for the matrix product a @ b @ c, the empty word for the         *)
(* identity (np.eye), and the conjugate transpose reverses the word and    *)
(* daggers every symbol.  No algebraic law is applied to a word, so two    *)
(* equal words are equal matrices whatever the Hamiltonian is.             *)
(*                                                                         *)
(* Numbers are Python numbers: time_step = 1 / sampling_rate is held by    *)
(* its denominator, and a decay factor exp(-t / t2star) by the numerator   *)
(* and denominator of its exponent.                                        *)
(***************************************************************************)
EXTENDS Integers, Sequences, FiniteSets, TLC

\* ------------------------------------------------------------------ bounds
MaxSignals == 2      \* most done / failed signals under way at once
MaxPoints == 3      \* largest npoints and Np1 drawn
MaxSpins == 2       \* largest number of spins n; the dimension is 2^n

\* --------------------------------------------------------------- variables
VARIABLES
    cfg,        \* the parameters / simulation object: state, npoints, np1, rate,
                \* and the shared default environment
    active,     \* the method of simulation that is executing, or "none"
    pc,         \* position inside the executing method
    t2star,     \* the t2star argument of the executing call
    i,          \* outer loop index (indirect dimension)
    k,          \* inner loop index (sample)
    rho,        \* density matrix before the loops (1D: the evolving one)
    rho2,       \* density matrix of the inner loop of fid2d / fid2d_MQ
    t1_evo,     \* cumulative indirect-dimension evolution operator
    fid,        \* the signal array being filled, keyed <<row, column>>
    expmLog,    \* the matrix exponentials computed by the executing call
    t1used,     \* the t1_evo used at each outer increment of the call
    res         \* per method: what its last call produced

fidvars == <<cfg, active, pc, t2star, i, k, rho, rho2, t1_evo, fid, expmLog,
             t1used, res>>

\* The stick-spectrum generators and simulation.freq_domain
VARIABLES
    dim,        \* N = H.shape[0] = 2^n, the Hilbert-space dimension (0: no system)
    evals,      \* eigenvalues of H_total over 2*pi, ascending (np.linalg.eigh)
    gen,        \* which generator function made the generator object
    gstate,     \* "none", "created", "running", "suspended" (at yield), "ended"
    gpc,        \* loop level the running generator is at
    tol_hz,     \* arguments of the generator
    min_weight,
    max_count,
    m, n, a, b, \* loop indices
    count,      \* tuples counted so far
    rho_ab,     \* |rho_e[a, b]| read in the outer loop of freq_domain_2d_MQ
    lastNext,   \* what the latest next() gave: "none", "pending", "yield", "stop"
    last,       \* the latest tuple yielded
    yields,     \* how many tuples were yielded
    cur,        \* the latest index tuple <<a, b, m, n>> whose weight was due
    sticks      \* what simulation.freq_domain returned

stickvars == <<dim, evals, gen, gstate, gpc, tol_hz, min_weight, max_count,
               m, n, a, b, count, rho_ab, lastNext, last, yields, cur, sticks>>

\* Construction of calculation / operation / simulation and the Hamiltonian
VARIABLES
    cls,        \* the class being constructed or constructed, or "none"
    bpc,        \* position inside __init__: the step that is due
    isos,       \* system.isos
    jsize,      \* number of rows and columns of interaction.coupling
    gamma,      \* self.gamma
    made,       \* the operator tables and Hamiltonians produced, in order
    err,        \* the exception that left the constructor
    hres        \* what the last H_total / propagate call on the object gave

buildvars == <<cls, bpc, isos, jsize, gamma, made, err, hres>>

\* The Hamiltonian and the 1D stick spectrum as matrices
VARIABLES
    msys,       \* the system, interaction and environment the matrices are for
    mham,       \* what the last H_zemmen / H_coupling / H_total call returned
    mstick      \* what the last freq_domain call on that system returned

hamvars == <<msys, mham, mstick>>

\* SignalProcessor (and data.freq of the Spinach bridge)
VARIABLES
    pin,        \* the caller's FID array
    pres        \* per method: what its call returned

procvars == <<pin, pres>>

\* TaskManager
VARIABLES
    tasks,          \* self.tasks: the tasks in the dict's insertion order
    max_cache_size, \* self.max_cache_size
    now,            \* the value datetime.now() gives
    tcall           \* the latest call on the manager and what it met

taskvars == <<tasks, max_cache_size, now, tcall>>

\* TaskMonitor
VARIABLES
    monitoring,     \* self._monitoring: per task id, monitored or not, start_time, last_status
    max_poll_time,  \* self.max_poll_time
    pcall,          \* the latest poll_once call: what it returned and passed on
    cbs             \* per task id, the status the callback got last this session

monvars == <<monitoring, max_poll_time, pcall, cbs>>

\* InitializationWorker and SplashScreen
VARIABLES
    wpc,        \* InitializationWorker.run: where the worker thread is
    fin,        \* the values emitted on the worker's finished signal, in order
    fin_flag,   \* self._finished_emitted
    entered,    \* the phases that were entered
    engine,     \* spinach_eng was called (phase 3 tried to start MATLAB)
    failed1,    \* phase 1 reported a failure
    escaped,    \* an exception reached the except clause of run
    plast,      \* the value emitted last on progress_percent
    pmono,      \* no value emitted on progress_percent was below the one before it
    tpc,        \* update_progress_during_create: where the progress thread is
    tidx,       \* milestone_index
    tpercent,   \* progress_tracker['percent']
    tstop,      \* progress_tracker['stop']
    inbox,      \* finished signals queued for the splash screen
    handled,    \* self._init_finished_handled
    nhandled,   \* how often _on_init_finished went past its guard
    closing,    \* self._closing_flag
    nclosed,    \* how often the closed signal was emitted
    hold,       \* the hold timer
    errbox      \* the error box

splashvars == <<wpc, fin, fin_flag, entered, engine, failed1, escaped, plast, pmono, tpc, tidx, tpercent, tstop, inbox, handled, nhandled, closing, nclosed, hold, errbox>>

\* MultiSystemSpinachUI: run_all_systems
VARIABLES
    systems,    \* self.systems.keys(): the names of the systems
    rq,         \* self._run_queue
    rqset,      \* hasattr(self, '_run_queue')
    workers,    \* per system: its worker's state and whether run_all's chain started it
    sigs,       \* done / failed signals on their way to the window
    lastStart   \* the worker started last: system, by whom, and on whose done signal

runvars == <<systems, rq, rqset, workers, sigs, lastStart>>

nonfid == <<stickvars, buildvars, hamvars, procvars, taskvars, monvars,
    splashvars,
    runvars>>

nonstick == <<fidvars, buildvars, hamvars, procvars, taskvars, monvars,
    splashvars,
    runvars>>

nonbuild == <<fidvars, stickvars, hamvars, procvars, taskvars, monvars,
    splashvars,
    runvars>>

nonham == <<fidvars, stickvars, buildvars, procvars, taskvars, monvars,
    splashvars,
    runvars>>

nonproc == <<fidvars, stickvars, buildvars, hamvars, taskvars, monvars,
    splashvars,
    runvars>>

nontask == <<fidvars, stickvars, buildvars, hamvars, procvars, monvars,
    splashvars,
    runvars>>

nonmon == <<fidvars, stickvars, buildvars, hamvars, procvars, taskvars,
    splashvars,
    runvars>>

nontaskmon == <<fidvars, stickvars, buildvars, hamvars, procvars, splashvars,
    runvars>>

nonsplash == <<fidvars, stickvars, buildvars, hamvars, procvars, taskvars, monvars,
    runvars>>

nonrun == <<fidvars, stickvars, buildvars, hamvars, procvars, taskvars, monvars,
    splashvars>>

vars == <<fidvars, stickvars, buildvars, hamvars, procvars, taskvars, monvars,
    splashvars,
    runvars>>

\* ------------------------------------------------------------ matrix words
RECURSIVE Reverse(_)
Reverse(w) == IF w = <<>> THEN <<>> ELSE Reverse(Tail(w)) \o <<Head(w)>>

DagSym(s) ==
    CASE s = "Pp"   -> "Pp+"
      [] s = "Pp+"  -> "Pp"
      [] s = "U"    -> "U+"
      [] s = "U+"   -> "U"
      [] s = "T1"   -> "T1+"
      [] s = "T1+"  -> "T1"
      [] s = "Tm"   -> "Tm+"
      [] s = "Tm+"  -> "Tm"
      [] OTHER      -> s          \* rho0 and the zero matrix are Hermitian

\* X.conj().T
ConjT(w) == [x \in 1..Len(w) |-> DagSym(Reverse(w)[x])]

RECURSIVE Pow(_, _)
Pow(w, e) == IF e <= 0 THEN <<>> ELSE w \o Pow(w, e - 1)


\* Operator symbols.  Each stands for the output of one matrix exponential.
p_pulse     == <<"Pp">>     \* expm(-1j * H_glob_pulse * duration * 1e-6)
propagate   == <<"U">>      \* expm(-1j * H * time_step)
T1StepEvo   == <<"T1">>     \* expm(-1j * H * t1_step)
TmEvo       == <<"Tm">>     \* expm(-1j * H * tm_time)
pro_dagger(P) == ConjT(P)
rho0        == <<"rho0">>   \* sum of 2*pi*gamma[i]*Ix[i]

\* operation.rho_pulse: p_pulse() is evaluated twice, once for each factor.
rho_pulse == p_pulse \o rho0 \o ConjT(p_pulse)
RhoPulseExpm == <<"pulse", "pulse">>

\* ---------------------------------------------------------- signal samples
\* np.trace(rho @ observer) * np.exp(-t / t2star) with t = k * time_step:
\* the exponent is -k / (sampling_rate * t2star).
Sample(r, kk, rate, t2) == [rho |-> r, num |-> -kk, den |-> rate * t2]
Zero == [rho |-> <<"0">>, num |-> 0, den |-> 1]

\* np.zeros(shape): raises ValueError on a negative dimension.
ZerosRaises(rows, cols) == rows < 0 \/ cols < 0
Zeros(rows, cols) == [x \in (0..rows-1) \X (0..cols-1) |-> Zero]

Methods == {"fid", "fid2d", "fid2d_MQ"}
NoResult == [status |-> "none", fid |-> Zeros(0, 0), t2star |-> 1,
             expm |-> <<>>, t1used |-> <<>>]
Result(st) == [status |-> st, fid |-> fid, t2star |-> t2star,
               expm |-> expmLog, t1used |-> t1used]

Rates    == {-1, 0, 1}
T2Stars  == {-1, 0, 1}
Counts   == -1..MaxPoints

\* --------------------------------------------------------------- start-up
\* env0 is the magnetic_field of the environment() object that the methods
\* share as their default argument; it is made when the class is defined.
NoCfg == [state |-> "none", npoints |-> 0, np1 |-> 0, rate |-> 1, env0 |-> 0]

FidIdle ==
    /\ cfg = NoCfg
    /\ active = "none"
    /\ pc = "idle"
    /\ t2star = 1
    /\ i = 0
    /\ k = 0
    /\ rho = <<>>
    /\ rho2 = <<>>
    /\ t1_evo = <<>>
    /\ fid = Zeros(0, 0)
    /\ expmLog = <<>>
    /\ t1used = <<>>
    /\ res = [mth \in Methods |-> NoResult]

\* parameters.__post_init__ (time_step = 1 / sampling_rate raises
\* ZeroDivisionError for sampling_rate = 0) followed by simulation.__init__,
\* which copies npoints, time_step and Np1.
Configure ==
    /\ UNCHANGED nonfid
    /\ cfg.state = "none"
    /\ \E np \in Counts, n1 \in Counts, r \in Rates :
          cfg' = [state |-> IF r = 0 THEN "error" ELSE "ok",
                  npoints |-> np, np1 |-> n1, rate |-> r, env0 |-> cfg.env0]
    /\ UNCHANGED <<active, pc, t2star, i, k, rho, rho2, t1_evo, fid, expmLog,
                   t1used, res>>

\* A call that raises: nothing is returned.
Raise(mth) ==
    /\ res' = [res EXCEPT ![mth] = [NoResult EXCEPT !.status = "error",
                                                   !.t2star = t2star',
                                                   !.expm = expmLog']]
    /\ active' = "none"
    /\ pc' = "idle"

\* A call that returns its array.
Return(mth) ==
    /\ res' = [res EXCEPT ![mth] = Result("returned")]
    /\ active' = "none"
    /\ pc' = "idle"

\* ------------------------------------------------------- simulation.fid
\* Lines 449-453: rho, observer, fid = np.zeros(npoints), P, P_d.
FidCall ==
    /\ UNCHANGED nonfid
    /\ cfg.state = "ok"
    /\ active = "none"
    /\ \E t \in T2Stars : t2star' = t
    /\ rho' = rho_pulse
    /\ t1used' = <<>>
    /\ UNCHANGED <<cfg, rho2, t1_evo, i>>
    /\ k' = 0
    /\ IF ZerosRaises(1, cfg.npoints)
       THEN /\ expmLog' = RhoPulseExpm
            /\ fid' = Zeros(0, 0)
            /\ Raise("fid")
       ELSE /\ expmLog' = RhoPulseExpm \o <<"free">>
            /\ fid' = Zeros(1, cfg.npoints)
            /\ active' = "fid"
            /\ pc' = "record"
            /\ UNCHANGED res

\* Faulty variant of FidRecord: the state is advanced before it is recorded.
FidRecord_AdvanceFirst ==
    /\ UNCHANGED nonfid
    /\ active = "fid"
    /\ pc = "record"
    /\ k < cfg.npoints
    /\ UNCHANGED <<cfg, t2star, i, k, rho, rho2, t1_evo, expmLog, t1used>>
    /\ IF t2star = 0
       THEN /\ Raise("fid")
            /\ UNCHANGED fid
       ELSE /\ fid' = [fid EXCEPT ![<<0, k>>] =
                          Sample(propagate \o rho \o pro_dagger(propagate), k,
                                 cfg.rate, t2star)]
            /\ pc' = "advance"
            /\ UNCHANGED <<active, res>>

\* Lines 454-457: t = k * time_step; decay; fid[k] = trace * decay.
\* -t / t2star raises ZeroDivisionError when t2star = 0.
FidRecord ==
    /\ UNCHANGED nonfid
    /\ active = "fid"
    /\ pc = "record"
    /\ k < cfg.npoints
    /\ UNCHANGED <<cfg, t2star, i, k, rho, rho2, t1_evo, expmLog, t1used>>
    /\ IF t2star = 0
       THEN /\ Raise("fid")
            /\ UNCHANGED fid
       ELSE /\ fid' = [fid EXCEPT ![<<0, k>>] = Sample(rho, k, cfg.rate, t2star)]
            /\ pc' = "advance"
            /\ UNCHANGED <<active, res>>

\* Line 458: rho = P @ rho @ P_d.
FidAdvance ==
    /\ UNCHANGED nonfid
    /\ active = "fid"
    /\ pc = "advance"
    /\ rho' = propagate \o rho \o pro_dagger(propagate)
    /\ k' = k + 1
    /\ pc' = "record"
    /\ UNCHANGED <<cfg, active, t2star, i, rho2, t1_evo, fid, expmLog, t1used,
                   res>>

\* Faulty variant of FidReturn: the field of the shared default environment
\* is overwritten before the array is returned.
FidReturn_TouchesDefaultEnv ==
    /\ UNCHANGED nonfid
    /\ active = "fid"
    /\ pc = "record"
    /\ k >= cfg.npoints
    /\ Return("fid")
    /\ cfg' = [cfg EXCEPT !.env0 = 1]
    /\ UNCHANGED <<t2star, i, k, rho, rho2, t1_evo, fid, expmLog, t1used>>

\* Line 460: return fid.
FidReturn ==
    /\ UNCHANGED nonfid
    /\ active = "fid"
    /\ pc = "record"
    /\ k >= cfg.npoints
    /\ Return("fid")
    /\ UNCHANGED <<cfg, t2star, i, k, rho, rho2, t1_evo, fid, expmLog, t1used>>

\* ----------------------------------------------------- simulation.fid2d
\* Lines 463-477: H, rho, observer, pulse, fid = np.zeros((np1, npoints)),
\* P, P_d, t1_evo = identity, t1_step_evo = expm(t1_evo_1).
Fid2dCall ==
    /\ UNCHANGED nonfid
    /\ cfg.state = "ok"
    /\ active = "none"
    /\ \E t \in T2Stars : t2star' = t
    /\ rho' = rho_pulse
    /\ t1used' = <<>>
    /\ t1_evo' = <<>>
    /\ i' = 0
    /\ k' = 0
    /\ UNCHANGED <<cfg, rho2>>
    /\ IF ZerosRaises(cfg.np1, cfg.npoints)
       THEN /\ expmLog' = RhoPulseExpm \o <<"pulse">>
            /\ fid' = Zeros(0, 0)
            /\ Raise("fid2d")
       ELSE /\ expmLog' = RhoPulseExpm \o <<"pulse", "free", "t1">>
            /\ fid' = Zeros(cfg.np1, cfg.npoints)
            /\ active' = "fid2d"
            /\ pc' = "outer"
            /\ UNCHANGED res

\* Faulty variant of Fid2dOuter: the evolution operator of increment i is
\* recomputed by a matrix exponential inside the loop, expm(t1_evo_1 * i),
\* as freq_domain2d does.
Fid2dOuter_Recompute ==
    /\ UNCHANGED nonfid
    /\ active = "fid2d"
    /\ pc = "outer"
    /\ i < cfg.np1
    /\ rho2' = p_pulse \o (Pow(T1StepEvo, i) \o rho \o ConjT(Pow(T1StepEvo, i)))
                  \o ConjT(p_pulse)
    /\ expmLog' = Append(expmLog, "t1")
    /\ t1used' = Append(t1used, Pow(T1StepEvo, i))
    /\ k' = 0
    /\ pc' = "record"
    /\ UNCHANGED <<cfg, active, t2star, i, rho, t1_evo, fid, res>>

\* Lines 479-483: rho1 = t1_evo @ rho @ t1_evo_dagg;
\* rho2 = pulse @ rho1 @ t_evo_dagg_pulse.
Fid2dOuter ==
    /\ UNCHANGED nonfid
    /\ active = "fid2d"
    /\ pc = "outer"
    /\ i < cfg.np1
    /\ rho2' = p_pulse \o (t1_evo \o rho \o ConjT(t1_evo)) \o ConjT(p_pulse)
    /\ t1used' = Append(t1used, t1_evo)
    /\ k' = 0
    /\ pc' = "record"
    /\ UNCHANGED <<cfg, active, t2star, i, rho, t1_evo, fid, expmLog, res>>

\* Lines 484-487.
Fid2dRecord ==
    /\ UNCHANGED nonfid
    /\ active = "fid2d"
    /\ pc = "record"
    /\ k < cfg.npoints
    /\ UNCHANGED <<cfg, t2star, i, k, rho, rho2, t1_evo, expmLog, t1used>>
    /\ IF t2star = 0
       THEN /\ Raise("fid2d")
            /\ UNCHANGED fid
       ELSE /\ fid' = [fid EXCEPT ![<<i, k>>] = Sample(rho2, k, cfg.rate, t2star)]
            /\ pc' = "advance"
            /\ UNCHANGED <<active, res>>

\* Line 488: rho2 = P @ rho2 @ P_d.
Fid2dAdvance ==
    /\ UNCHANGED nonfid
    /\ active = "fid2d"
    /\ pc = "advance"
    /\ rho2' = propagate \o rho2 \o pro_dagger(propagate)
    /\ k' = k + 1
    /\ pc' = "record"
    /\ UNCHANGED <<cfg, active, t2star, i, rho, t1_evo, fid, expmLog, t1used,
                   res>>

\* Line 491: t1_evo = t1_step_evo @ t1_evo.
Fid2dUpdate ==
    /\ UNCHANGED nonfid
    /\ active = "fid2d"
    /\ pc = "record"
    /\ k >= cfg.npoints
    /\ t1_evo' = T1StepEvo \o t1_evo
    /\ i' = i + 1
    /\ pc' = "outer"
    /\ UNCHANGED <<cfg, active, t2star, k, rho, rho2, fid, expmLog, t1used,
                   res>>

\* Line 493: return fid.
Fid2dReturn ==
    /\ UNCHANGED nonfid
    /\ active = "fid2d"
    /\ pc = "outer"
    /\ i >= cfg.np1
    /\ Return("fid2d")
    /\ UNCHANGED <<cfg, t2star, i, k, rho, rho2, t1_evo, fid, expmLog, t1used>>

\* -------------------------------------------------- simulation.fid2d_MQ
\* tm = None: tm_time = t1_step, so tm_evo is the same matrix as the single
\* t1 step; otherwise tm_time = tm * 1e-3.
TmArgs == {"None", "given"}
TmEvoOf(tm) == IF tm = "None" THEN T1StepEvo ELSE TmEvo

\* Line 516: U_exc = pulse @ tm_evo @ pulse.
U_exc(tm) == p_pulse \o TmEvoOf(tm) \o p_pulse

\* Line 517: rho = U_exc @ rho0 @ U_exc.conj().T.
RhoExc(tm) == U_exc(tm) \o rho0 \o ConjT(U_exc(tm))

\* Lines 496-521.
MQCall ==
    /\ UNCHANGED nonfid
    /\ cfg.state = "ok"
    /\ active = "none"
    /\ \E t \in T2Stars : t2star' = t
    /\ t1used' = <<>>
    /\ t1_evo' = <<>>
    /\ i' = 0
    /\ k' = 0
    /\ UNCHANGED <<cfg, rho2>>
    /\ IF ZerosRaises(cfg.np1, cfg.npoints)
       THEN /\ expmLog' = <<"pulse">>
            /\ fid' = Zeros(0, 0)
            /\ rho' = rho0
            /\ Raise("fid2d_MQ")
       ELSE /\ expmLog' = <<"pulse", "free", "tm", "t1">>
            /\ fid' = Zeros(cfg.np1, cfg.npoints)
            /\ \E tm \in TmArgs : rho' = RhoExc(tm)
            /\ active' = "fid2d_MQ"
            /\ pc' = "outer"
            /\ UNCHANGED res

\* Faulty variant of MQOuter: the excitation is applied again at every
\* indirect-dimension increment.
MQOuter_ReExcite ==
    /\ UNCHANGED nonfid
    /\ active = "fid2d_MQ"
    /\ pc = "outer"
    /\ i < cfg.np1
    /\ \E tm \in TmArgs :
          rho2' = p_pulse
                    \o (t1_evo \o (U_exc(tm) \o rho \o ConjT(U_exc(tm)))
                          \o ConjT(t1_evo))
                    \o ConjT(p_pulse)
    /\ t1used' = Append(t1used, t1_evo)
    /\ k' = 0
    /\ pc' = "record"
    /\ UNCHANGED <<cfg, active, t2star, i, rho, t1_evo, fid, expmLog, res>>

\* Lines 523-527.
MQOuter ==
    /\ UNCHANGED nonfid
    /\ active = "fid2d_MQ"
    /\ pc = "outer"
    /\ i < cfg.np1
    /\ rho2' = p_pulse \o (t1_evo \o rho \o ConjT(t1_evo)) \o ConjT(p_pulse)
    /\ t1used' = Append(t1used, t1_evo)
    /\ k' = 0
    /\ pc' = "record"
    /\ UNCHANGED <<cfg, active, t2star, i, rho, t1_evo, fid, expmLog, res>>

\* Lines 528-531.
MQRecord ==
    /\ UNCHANGED nonfid
    /\ active = "fid2d_MQ"
    /\ pc = "record"
    /\ k < cfg.npoints
    /\ UNCHANGED <<cfg, t2star, i, k, rho, rho2, t1_evo, expmLog, t1used>>
    /\ IF t2star = 0
       THEN /\ Raise("fid2d_MQ")
            /\ UNCHANGED fid
       ELSE /\ fid' = [fid EXCEPT ![<<i, k>>] = Sample(rho2, k, cfg.rate, t2star)]
            /\ pc' = "advance"
            /\ UNCHANGED <<active, res>>

\* Line 532.
MQAdvance ==
    /\ UNCHANGED nonfid
    /\ active = "fid2d_MQ"
    /\ pc = "advance"
    /\ rho2' = propagate \o rho2 \o pro_dagger(propagate)
    /\ k' = k + 1
    /\ pc' = "record"
    /\ UNCHANGED <<cfg, active, t2star, i, rho, t1_evo, fid, expmLog, t1used,
                   res>>

\* Line 535.
MQUpdate ==
    /\ UNCHANGED nonfid
    /\ active = "fid2d_MQ"
    /\ pc = "record"
    /\ k >= cfg.npoints
    /\ t1_evo' = T1StepEvo \o t1_evo
    /\ i' = i + 1
    /\ pc' = "outer"
    /\ UNCHANGED <<cfg, active, t2star, k, rho, rho2, fid, expmLog, t1used,
                   res>>

\* Line 537.
MQReturn ==
    /\ UNCHANGED nonfid
    /\ active = "fid2d_MQ"
    /\ pc = "outer"
    /\ i >= cfg.np1
    /\ Return("fid2d_MQ")
    /\ UNCHANGED <<cfg, t2star, i, k, rho, rho2, t1_evo, fid, expmLog, t1used>>

NextFid ==
    \/ Configure
    \/ FidCall \/ FidRecord \/ FidAdvance \/ FidReturn
    \/ Fid2dCall \/ Fid2dOuter \/ Fid2dRecord \/ Fid2dAdvance \/ Fid2dUpdate
    \/ Fid2dReturn
    \/ MQCall \/ MQOuter \/ MQRecord \/ MQAdvance \/ MQUpdate \/ MQReturn


\* ------------------------------------------------------------------------
\* Stick spectra: simulation.freq_domain, freq_domain_2d, freq_domain_2d_MQ
\* ------------------------------------------------------------------------
Abs(x) == IF x < 0 THEN -x ELSE x

RECURSIVE TwoTo(_)
TwoTo(e) == IF e <= 0 THEN 1 ELSE 2 * TwoTo(e - 1)

\* Spectra of H_total drawn, in units of 2*pi Hz and ascending as eigh gives
\* them: fully degenerate (zero field, no coupling), one level below a
\* degenerate block (two coupled spins at zero field: singlet and triplet),
\* and a non-degenerate ladder.
Patterns == {"flat", "low1", "ladder"}
Spectrum(pat, d) ==
    [x \in 0..(d - 1) |->
        CASE pat = "flat"   -> 0
          [] pat = "low1"   -> IF x = 0 THEN 0 ELSE 2
          [] OTHER          -> x]

\* abs(evals[x] - evals[y]) / two_pi
Freq(x, y) == Abs(evals[x] - evals[y])

\* Values drawn for the matrix-element magnitudes and for the arguments: below,
\* at and above what they are compared with.
Weights    == {0, 1, 2}
Tols       == {-1, 0, 1}
MinWeights == {0, 1}
MaxCounts  == {-1, 0, 1, 2}

NoTuple  == [f1 |-> 0, f2 |-> 0, w |-> 0]
NoVisit  == <<-1, -1, -1, -1>>
NoSticks == [done |-> FALSE, idx |-> <<>>, f |-> <<>>, w |-> <<>>]

StickIdle ==
    /\ dim = 0
    /\ evals = <<>>
    /\ gen = "none"
    /\ gstate = "none"
    /\ gpc = "idle"
    /\ tol_hz = 0
    /\ min_weight = 0
    /\ max_count = 0
    /\ m = 0 /\ n = 0 /\ a = 0 /\ b = 0
    /\ count = 0
    /\ rho_ab = 0
    /\ lastNext = "none"
    /\ last = NoTuple
    /\ yields = 0
    /\ cur = NoVisit
    /\ sticks = NoSticks

\* simulation.__init__ for a list of sp isotopes: N = 2^sp, and the spectrum
\* that np.linalg.eigh(H_total) gives for it.
SetSystem ==
    /\ dim = 0
    /\ \E sp \in 1..MaxSpins, pat \in Patterns :
          /\ dim' = TwoTo(sp)
          /\ evals' = Spectrum(pat, TwoTo(sp))
    /\ UNCHANGED <<gen, gstate, gpc, tol_hz, min_weight, max_count, m, n, a, b,
                   count, rho_ab, lastNext, last, yields, cur,
                   sticks>>
    /\ UNCHANGED nonstick

\* ---------------------------------------------- simulation.freq_domain
\* np.triu_indices_from(f, k=kk): the index pairs (x, y) with y >= x + kk,
\* row by row.
RECURSIVE TriuFrom(_, _, _, _)
TriuFrom(x, y, d, kk) ==
    IF x >= d THEN <<>>
    ELSE IF y >= d THEN TriuFrom(x + 1, x + 1 + kk, d, kk)
    ELSE <<<<x, y>>>> \o TriuFrom(x, y + 1, d, kk)

TriuIndices_WithDiagonal(d) == TriuFrom(0, 0, d, 0)

TriuIndices(d) == TriuFrom(0, 1, d, 1)

\* Lines 300-310: f[i, j] and weights[i, j] are assigned for j > i only and
\* are zero elsewhere.  A weight is held as the pair of matrix elements
\* whose product it is: rho_eig[i, j] * O_eig[j, i].
FMatrix == [pr \in (0..(dim - 1)) \X (0..(dim - 1)) |->
              IF pr[2] > pr[1] THEN Freq(pr[2], pr[1]) ELSE 0]
WMatrix == [pr \in (0..(dim - 1)) \X (0..(dim - 1)) |->
              IF pr[2] > pr[1]
              THEN [rho |-> <<pr[1], pr[2]>>, obs |-> <<pr[2], pr[1]>>]
              ELSE [rho |-> <<>>, obs |-> <<>>]]

\* Lines 297-320.
FreqDomain ==
    /\ dim > 0
    /\ gstate = "none"
    /\ ~sticks.done
    /\ LET idx == TriuIndices(dim) IN
          sticks' = [done |-> TRUE, idx |-> idx,
                     f |-> [x \in 1..Len(idx) |-> FMatrix[idx[x]]],
                     w |-> [x \in 1..Len(idx) |-> WMatrix[idx[x]]]]
    /\ UNCHANGED <<dim, evals, gen, gstate, gpc, tol_hz, min_weight, max_count,
                   m, n, a, b, count, rho_ab, lastNext, last, yields, cur>>
    /\ UNCHANGED nonstick

\* ------------------------------------------------- the generator objects
\* Calling a generator function only makes the generator object; its body
\* runs from the first next().
GenCreate ==
    /\ dim > 0
    /\ gstate = "none"
    /\ ~sticks.done
    /\ \E g \in {"freq_domain_2d", "freq_domain_2d_MQ"} : gen' = g
    /\ \E t \in Tols : tol_hz' = t
    /\ \E w \in MinWeights : min_weight' = w
    /\ \E c \in MaxCounts : max_count' = c
    /\ gstate' = "created"
    /\ UNCHANGED <<dim, evals, gpc, m, n, a, b, count, rho_ab, lastNext, last,
                   yields, cur, sticks>>
    /\ UNCHANGED nonstick

\* The first next(): lines 355-369 (freq_domain_2d), 397-422 (MQ).
GenStart ==
    /\ gstate = "created"
    /\ gstate' = "running"
    /\ lastNext' = "pending"
    /\ gpc' = "outer"
    /\ count' = 0
    /\ m' = 0 /\ n' = 0 /\ a' = 0 /\ b' = 0
    /\ UNCHANGED <<dim, evals, gen, tol_hz, min_weight, max_count, rho_ab,
                   last, yields, cur, sticks>>
    /\ UNCHANGED nonstick

\* next() on a generator that has returned raises StopIteration again.
GenNextEnded ==
    /\ gstate = "ended"
    /\ lastNext' = "stop"
    /\ UNCHANGED <<dim, evals, gen, gstate, gpc, tol_hz, min_weight, max_count,
                   m, n, a, b, count, rho_ab, last, yields, cur,
                   sticks>>
    /\ UNCHANGED nonstick

\* The frame of a generator step.
GenFrame == /\ UNCHANGED <<dim, evals, gen, tol_hz, min_weight, max_count,
                           sticks>>
            /\ UNCHANGED nonstick

\* for x in range(N): for y in range(N): the next (x, y).
NextX(x, y) == IF y + 1 < dim THEN x ELSE x + 1
NextY(x, y) == IF y + 1 < dim THEN y + 1 ELSE 0

\* The generator returns: StopIteration reaches the caller.
GenEnds ==
    /\ gstate' = "ended"
    /\ gpc' = "idle"
    /\ lastNext' = "stop"
    /\ last' = NoTuple
    /\ m' = 0 /\ n' = 0 /\ a' = 0 /\ b' = 0
    /\ rho_ab' = 0

\* next() resumes the suspended generator: what it will give is pending.
GenResumes ==
    /\ gstate' = "running"
    /\ lastNext' = "pending"
    /\ last' = NoTuple

\* yield f1, f2, w
GenYields(f1, f2, w) ==
    /\ last' = [f1 |-> f1, f2 |-> f2, w |-> w]
    /\ yields' = yields + 1
    /\ lastNext' = "yield"
    /\ gstate' = "suspended"

\* The innermost loop body is reached with a # b and m # n.
Visit == cur' = <<a, b, m, n>>

\* ------------------------------------------- simulation.freq_domain_2d
\* Line 370-371 exhausted: the function body ends.
Gen2dOuterEnd ==
    /\ gen = "freq_domain_2d" /\ gstate = "running" /\ gpc = "outer"
    /\ m >= dim
    /\ GenEnds
    /\ UNCHANGED <<count, yields, cur>>
    /\ GenFrame

\* Lines 372-376: m == n, or f2 within the tolerance: continue.
Gen2dOuterSkip ==
    /\ gen = "freq_domain_2d" /\ gstate = "running" /\ gpc = "outer"
    /\ m < dim
    /\ m = n \/ (tol_hz > 0 /\ Freq(m, n) <= tol_hz)
    /\ m' = NextX(m, n)
    /\ n' = NextY(m, n)
    /\ UNCHANGED <<gstate, gpc, a, b, count, rho_ab, lastNext, last, yields, cur>>
    /\ GenFrame

\* Lines 377-378: the inner loops start.
Gen2dOuterEnter ==
    /\ gen = "freq_domain_2d" /\ gstate = "running" /\ gpc = "outer"
    /\ m < dim
    /\ ~(m = n \/ (tol_hz > 0 /\ Freq(m, n) <= tol_hz))
    /\ a' = 0
    /\ b' = 0
    /\ gpc' = "inner"
    /\ UNCHANGED <<gstate, m, n, count, rho_ab, lastNext, last, yields, cur>>
    /\ GenFrame

\* The inner loops are exhausted: the next (m, n).
Gen2dInnerExit ==
    /\ gen = "freq_domain_2d" /\ gstate = "running" /\ gpc = "inner"
    /\ a >= dim
    /\ m' = NextX(m, n)
    /\ n' = NextY(m, n)
    /\ gpc' = "outer"
    /\ UNCHANGED <<gstate, a, b, count, rho_ab, lastNext, last, yields, cur>>
    /\ GenFrame

\* Lines 379-380: a == b: continue.
Gen2dInnerSkip ==
    /\ gen = "freq_domain_2d" /\ gstate = "running" /\ gpc = "inner"
    /\ a < dim
    /\ a = b
    /\ a' = NextX(a, b)
    /\ b' = NextY(a, b)
    /\ UNCHANGED <<gstate, gpc, m, n, count, rho_ab, lastNext, last, yields, cur>>
    /\ GenFrame

\* Faulty variant of Gen2dInnerVisit: f1 is not compared with the tolerance.
Gen2dInnerVisit_NoF1Filter ==
    /\ gen = "freq_domain_2d" /\ gstate = "running" /\ gpc = "inner"
    /\ a < dim
    /\ a # b
    /\ Visit
    /\ \E w \in Weights :
          IF w > min_weight
          THEN /\ GenYields(Freq(a, b), Freq(m, n), w)
               /\ UNCHANGED <<gpc, m, n, a, b, count, rho_ab>>
          ELSE /\ a' = NextX(a, b)
               /\ b' = NextY(a, b)
               /\ UNCHANGED <<gstate, gpc, m, n, count, rho_ab, lastNext,
                              last, yields>>
    /\ GenFrame

\* Lines 381-386: f1, the tolerance, w = rho1[a, b] * Up[m, a] *
\* Up[n, b].conj() * Oe[n, m], whose magnitude is the w drawn here, and the
\* yield at which the generator is suspended.
Gen2dInnerVisit ==
    /\ gen = "freq_domain_2d" /\ gstate = "running" /\ gpc = "inner"
    /\ a < dim
    /\ a # b
    /\ Visit
    /\ IF tol_hz > 0 /\ Freq(a, b) <= tol_hz
       THEN /\ a' = NextX(a, b)
            /\ b' = NextY(a, b)
            /\ UNCHANGED <<gstate, gpc, m, n, count, rho_ab, lastNext, last,
                           yields>>
       ELSE \E w \in Weights :
               IF w > min_weight
               THEN /\ GenYields(Freq(a, b), Freq(m, n), w)
                    /\ UNCHANGED <<gpc, m, n, a, b, count, rho_ab>>
               ELSE /\ a' = NextX(a, b)
                    /\ b' = NextY(a, b)
                    /\ UNCHANGED <<gstate, gpc, m, n, count, rho_ab, lastNext,
                                   last, yields>>
    /\ GenFrame

\* Faulty variant of Gen2dResume: the loop indices are not advanced, so the
\* pair just yielded is visited again.
Gen2dResume_Revisit ==
    /\ gen = "freq_domain_2d" /\ gstate = "suspended"
    /\ count' = count + 1
    /\ IF count + 1 >= max_count
       THEN GenEnds
       ELSE /\ GenResumes
            /\ UNCHANGED <<a, b, m, n, gpc, rho_ab>>
    /\ UNCHANGED <<yields, cur>>
    /\ GenFrame

\* The next() after a yield, lines 387-389: count += 1; return when
\* count >= max_count, else the loops go on.
Gen2dResume ==
    /\ gen = "freq_domain_2d" /\ gstate = "suspended"
    /\ count' = count + 1
    /\ IF count + 1 >= max_count
       THEN GenEnds
       ELSE /\ GenResumes
            /\ a' = NextX(a, b)
            /\ b' = NextY(a, b)
            /\ UNCHANGED <<m, n, gpc, rho_ab>>
    /\ UNCHANGED <<yields, cur>>
    /\ GenFrame

\* ---------------------------------------- simulation.freq_domain_2d_MQ
\* Lines 425-426 exhausted.
GenMQOuterEnd ==
    /\ gen = "freq_domain_2d_MQ" /\ gstate = "running" /\ gpc = "outer"
    /\ a >= dim
    /\ GenEnds
    /\ UNCHANGED <<count, yields, cur>>
    /\ GenFrame

\* Lines 427-429: a == b, or f1 within the tolerance: continue.
GenMQOuterSkip ==
    /\ gen = "freq_domain_2d_MQ" /\ gstate = "running" /\ gpc = "outer"
    /\ a < dim
    /\ a = b \/ (tol_hz > 0 /\ Freq(a, b) <= tol_hz)
    /\ a' = NextX(a, b)
    /\ b' = NextY(a, b)
    /\ UNCHANGED <<gstate, gpc, m, n, count, rho_ab, lastNext, last, yields, cur>>
    /\ GenFrame

\* Lines 430-436: rho_ab = rho_e[a, b], whose magnitude is the r drawn here;
\* continue when abs(rho_ab) <= min_weight, else the inner loops start.
GenMQOuterRead ==
    /\ gen = "freq_domain_2d_MQ" /\ gstate = "running" /\ gpc = "outer"
    /\ a < dim
    /\ ~(a = b \/ (tol_hz > 0 /\ Freq(a, b) <= tol_hz))
    /\ \E r \in Weights :
          IF r <= min_weight
          THEN /\ a' = NextX(a, b)
               /\ b' = NextY(a, b)
               /\ rho_ab' = 0   \* dead until line 430 assigns it again
               /\ UNCHANGED <<gpc, m, n>>
          ELSE /\ rho_ab' = r
               /\ m' = 0
               /\ n' = 0
               /\ gpc' = "inner"
               /\ UNCHANGED <<a, b>>
    /\ UNCHANGED <<gstate, count, lastNext, last, yields, cur>>
    /\ GenFrame

\* The inner loops are exhausted: the next (a, b).
GenMQInnerExit ==
    /\ gen = "freq_domain_2d_MQ" /\ gstate = "running" /\ gpc = "inner"
    /\ m >= dim
    /\ a' = NextX(a, b)
    /\ b' = NextY(a, b)
    /\ gpc' = "outer"
    /\ rho_ab' = 0              \* dead until line 430 assigns it again
    /\ UNCHANGED <<gstate, m, n, count, lastNext, last, yields, cur>>
    /\ GenFrame

\* Line 437: m == n: continue.
GenMQInnerSkip ==
    /\ gen = "freq_domain_2d_MQ" /\ gstate = "running" /\ gpc = "inner"
    /\ m < dim
    /\ m = n
    /\ m' = NextX(m, n)
    /\ n' = NextY(m, n)
    /\ UNCHANGED <<gstate, gpc, a, b, count, rho_ab, lastNext, last, yields, cur>>
    /\ GenFrame

\* Lines 438-442: f2, the tolerance, w = rho_ab * Ure_e[m, a] *
\* conj(Ure_e[n, b]) * Mdet_e[n, m]; u is the magnitude of the last three
\* factors' product.
GenMQInnerVisit ==
    /\ gen = "freq_domain_2d_MQ" /\ gstate = "running" /\ gpc = "inner"
    /\ m < dim
    /\ m # n
    /\ Visit
    /\ IF tol_hz > 0 /\ Freq(m, n) <= tol_hz
       THEN /\ m' = NextX(m, n)
            /\ n' = NextY(m, n)
            /\ UNCHANGED <<gstate, gpc, a, b, count, rho_ab, lastNext, last,
                           yields>>
       ELSE \E u \in Weights :
               IF rho_ab * u > min_weight
               THEN /\ GenYields(Freq(a, b), Freq(m, n), rho_ab * u)
                    /\ UNCHANGED <<gpc, m, n, a, b, count, rho_ab>>
               ELSE /\ m' = NextX(m, n)
                    /\ n' = NextY(m, n)
                    /\ UNCHANGED <<gstate, gpc, a, b, count, rho_ab, lastNext,
                                   last, yields>>
    /\ GenFrame

\* The next() after a yield, lines 443-445.
GenMQResume ==
    /\ gen = "freq_domain_2d_MQ" /\ gstate = "suspended"
    /\ count' = count + 1
    /\ IF count + 1 >= max_count
       THEN GenEnds
       ELSE /\ GenResumes
            /\ m' = NextX(m, n)
            /\ n' = NextY(m, n)
            /\ UNCHANGED <<a, b, gpc, rho_ab>>
    /\ UNCHANGED <<yields, cur>>
    /\ GenFrame

NextStick ==
    \/ SetSystem \/ FreqDomain \/ GenCreate \/ GenStart \/ GenNextEnded
    \/ Gen2dOuterEnd \/ Gen2dOuterSkip \/ Gen2dOuterEnter \/ Gen2dInnerExit
    \/ Gen2dInnerSkip \/ Gen2dInnerVisit \/ Gen2dResume
    \/ GenMQOuterEnd \/ GenMQOuterSkip \/ GenMQOuterRead \/ GenMQInnerExit
    \/ GenMQInnerSkip \/ GenMQInnerVisit \/ GenMQResume

\* ------------------------------------------------------------------------
\* Construction: qutools.gamma_array, calculation / operation / simulation
\* __init__, and calculation.H_coupling / H_total / propagate
\* ------------------------------------------------------------------------
Known  == {"1H", "13C", "15N"}
Labels == Known \cup {"2H"}

\* Gamma_Dict
GammaOf(label) ==
    CASE label = "13C" -> "G_13C"
      [] label = "1H"  -> "G_1H"
      [] label = "15N" -> "G_15N"
      [] OTHER         -> "?"

\* Faulty variant of gamma_array: a label that is not in the table is passed
\* over instead of raising.
RECURSIVE gamma_array_SkipUnknown(_)
gamma_array_SkipUnknown(nucleus) ==
    IF nucleus = <<>> THEN [ok |-> TRUE, g |-> <<>>]
    ELSE LET rest == gamma_array_SkipUnknown(Tail(nucleus))
         IN  IF Head(nucleus) \in Known
             THEN [ok |-> rest.ok, g |-> <<GammaOf(Head(nucleus))>> \o rest.g]
             ELSE rest

\* qutools.gamma_array: the ratios of the labels in order; ValueError
\* ("Unknown nucleus") at the first label that is none of 13C, 1H, 15N.
RECURSIVE gamma_array(_)
gamma_array(nucleus) ==
    IF nucleus = <<>> THEN [ok |-> TRUE, g |-> <<>>]
    ELSE IF Head(nucleus) \in Known
    THEN LET rest == gamma_array(Tail(nucleus))
         IN  IF rest.ok
             THEN [ok |-> TRUE, g |-> <<GammaOf(Head(nucleus))>> \o rest.g]
             ELSE [ok |-> FALSE, g |-> <<>>]
    ELSE [ok |-> FALSE, g |-> <<>>]

RECURSIVE SeqsUpTo(_, _)
SeqsUpTo(S, len) ==
    IF len = 0 THEN {<<>>}
    ELSE LET shorter == SeqsUpTo(S, len - 1)
         IN  shorter \cup {Append(q, x) : q \in shorter, x \in S}

\* system.isos: n >= 1 labels.
IsoLists == SeqsUpTo(Labels, MaxSpins) \ {<<>>}
JSizes   == 0..(MaxSpins + 1)

\* The steps of each __init__, in source order.
Steps(c) ==
    CASE c = "calculation" -> <<"gamma", "tables", "done">>
      [] c = "operation"   -> <<"calc.gamma", "calc.tables", "gamma", "tables",
                                "H", "done">>
      [] OTHER             -> <<"gamma", "tables", "done">>

StepAfter(c, st) ==
    LET q == CHOOSE x \in 1..Len(Steps(c)) : Steps(c)[x] = st
    IN  Steps(c)[q + 1]

NoH == [status |-> "none", kind |-> "none", terms |-> <<>>]

BuildIdle ==
    /\ cls = "none"
    /\ bpc = "idle"
    /\ isos = <<>>
    /\ jsize = 0
    /\ gamma = <<>>
    /\ made = <<>>
    /\ err = "none"
    /\ hres = NoH

\* calculation(...), operation(...) or simulation(...) is called.
New ==
    /\ cls = "none"
    /\ \E c \in {"calculation", "operation", "simulation"} :
          /\ cls' = c
          /\ bpc' = Steps(c)[1]
    /\ \E l \in IsoLists : isos' = l
    /\ \E js \in JSizes : jsize' = js
    /\ UNCHANGED <<gamma, made, err, hres>>
    /\ UNCHANGED nonbuild

\* self.gamma = self.qutools.gamma_array(self.isos): lines 177, 222, 276.
StepGamma ==
    /\ bpc \in {"gamma", "calc.gamma"}
    /\ LET r == gamma_array(isos) IN
          IF r.ok
          THEN /\ gamma' = r.g
               /\ bpc' = StepAfter(cls, bpc)
               /\ UNCHANGED err
          ELSE /\ err' = "ValueError: Unknown nucleus"
               /\ bpc' = "raised"
               /\ UNCHANGED gamma
    /\ UNCHANGED <<cls, isos, jsize, made, hres>>
    /\ UNCHANGED nonbuild

\* self.Ix, self.Iy, self.Iz = I_x(n), I_y(n), I_z(n): lines 180-182,
\* 225-227, 279-281.
StepTables ==
    /\ bpc \in {"tables", "calc.tables"}
    /\ made' = made \o <<"Ix", "Iy", "Iz">>
    /\ bpc' = StepAfter(cls, bpc)
    /\ UNCHANGED <<cls, isos, jsize, gamma, err, hres>>
    /\ UNCHANGED nonbuild

\* for i in range(n): for j in range(i+1, n): the entries J[i][j] read.
RECURSIVE CouplingReads(_, _, _)
CouplingReads(x, y, cnt) ==
    IF x >= cnt THEN <<>>
    ELSE IF y >= cnt THEN CouplingReads(x + 1, x + 2, cnt)
    ELSE <<<<x, y>>>> \o CouplingReads(x, y + 1, cnt)

\* calculation.H_coupling: the terms 2*pi*J[i][j]*(Ix_i Ix_j + Iy_i Iy_j +
\* Iz_i Iz_j) in the order added; J[i][j] raises IndexError when i or j is
\* not an index of the coupling matrix.
H_coupling ==
    LET reads == CouplingReads(0, 1, Len(isos))
    IN  IF \E q \in 1..Len(reads) : reads[q][1] >= jsize \/ reads[q][2] >= jsize
        THEN [status |-> "IndexError", terms |-> <<>>]
        ELSE [status |-> "returned", terms |-> reads]

\* calculation.H_total: H_zemmen() + H_coupling().
H_total == H_coupling

\* self.H = self.calculation.H_total(): line 229.
StepH ==
    /\ bpc = "H"
    /\ IF H_total.status = "returned"
       THEN /\ made' = Append(made, "H")
            /\ bpc' = StepAfter(cls, bpc)
            /\ UNCHANGED err
       ELSE /\ err' = H_total.status
            /\ bpc' = "raised"
            /\ UNCHANGED made
    /\ UNCHANGED <<cls, isos, jsize, gamma, hres>>
    /\ UNCHANGED nonbuild

\* calculation.H_total() or calculation.propagate() on a constructed
\* calculation object.
CallH ==
    /\ cls = "calculation"
    /\ bpc = "done"
    /\ \E kind \in {"H_total", "propagate"} :
          hres' = [status |-> H_total.status, kind |-> kind,
                   terms |-> H_total.terms]
    /\ UNCHANGED <<cls, bpc, isos, jsize, gamma, made, err>>
    /\ UNCHANGED nonbuild

NextBuild == New \/ StepGamma \/ StepTables \/ StepH \/ CallH

\* ------------------------------------------------------------------------
\* The matrices: Pauli_Operator, qutools.kron_all / I_x / I_y / I_z,
\* calculation.H_zemmen / H_coupling / H_total, operation.operator / rho0 /
\* p_pulse / rho_pulse and simulation.freq_domain
\*
\* Complex numbers are pairs <<re, im>> of integers and a matrix is a record
\* [d, e] of its dimension and its entries, keyed <<row, column>> from 0.
\* Every matrix is stored times a fixed positive factor, named where the
\* matrix is defined, so that all entries are integers.
\* ------------------------------------------------------------------------
CZero == <<0, 0>>
COne  == <<1, 0>>
CAdd(x, y) == <<x[1] + y[1], x[2] + y[2]>>
CMul(x, y) == <<x[1] * y[1] - x[2] * y[2], x[1] * y[2] + x[2] * y[1]>>
CConj(x) == <<x[1], -x[2]>>
CReal(r) == <<r, 0>>

Idx(d) == (0..(d - 1)) \X (0..(d - 1))
\* The entries of an array are computed when the array is made.
Mat(d, F(_, _)) ==
    LET ent == [rc \in Idx(d) |-> F(rc[1], rc[2])]
    IN  IF ent = ent THEN [d |-> d, e |-> ent] ELSE [d |-> 0, e |-> <<>>]

\* np.zeros((d, d), dtype=complex), np.eye(d)
MZeros(d) == Mat(d, LAMBDA r, c : CZero)
MEye(d) == Mat(d, LAMBDA r, c : IF r = c THEN COne ELSE CZero)

\* A + B, z * A, A.conj().T
MAdd(A, B) == Mat(A.d, LAMBDA r, c : CAdd(A.e[<<r, c>>], B.e[<<r, c>>]))
MScale(z, A) == Mat(A.d, LAMBDA r, c : CMul(z, A.e[<<r, c>>]))
MConjT(A) == Mat(A.d, LAMBDA r, c : CConj(A.e[<<c, r>>]))

RECURSIVE DotTo(_, _, _, _, _)
DotTo(A, B, r, c, q) ==
    IF q < 0 THEN CZero
    ELSE CAdd(CMul(A.e[<<r, q>>], B.e[<<q, c>>]), DotTo(A, B, r, c, q - 1))

\* A @ B
MMul(A, B) == Mat(A.d, LAMBDA r, c : DotTo(A, B, r, c, A.d - 1))

\* np.kron(A, B)
Kron(A, B) ==
    Mat(A.d * B.d,
        LAMBDA r, c : CMul(A.e[<<r \div B.d, c \div B.d>>],
                           B.e[<<r % B.d, c % B.d>>]))

\* Pauli_Operator: P_x, P_y and P_z are stored times 2; unit is np.eye(2).
P_x == Mat(2, LAMBDA r, c : IF r # c THEN COne ELSE CZero)
P_y == Mat(2, LAMBDA r, c : IF r = c THEN CZero
                            ELSE IF r = 0 THEN <<0, -1>> ELSE <<0, 1>>)
P_z == Mat(2, LAMBDA r, c : IF r # c THEN CZero
                            ELSE IF r = 0 THEN COne ELSE <<-1, 0>>)
unit == MEye(2)

\* qutools.kron_all_np: result = np.eye(1); for mat in matrices:
\* result = np.kron(result, mat), with matrices = P if j == i else unit.
RECURSIVE kron_all(_, _, _, _)
kron_all(P, x, j, cnt) ==
    IF j < 0 THEN MEye(1)
    ELSE Kron(kron_all(P, x, j - 1, cnt), IF j = x THEN P ELSE unit)

\* Faulty variant of I_x: P_x is placed at the first spin for every entry.
I_x_AlwaysFirstSpin(cnt) == [x \in 0..(cnt - 1) |-> kron_all(P_x, 0, cnt - 1, cnt)]

\* qutools.I_x / I_y / I_z: the list of the per-spin operators (times 2).
I_x(cnt) == [x \in 0..(cnt - 1) |-> kron_all(P_x, x, cnt - 1, cnt)]
I_y(cnt) == [x \in 0..(cnt - 1) |-> kron_all(P_y, x, cnt - 1, cnt)]
I_z(cnt) == [x \in 0..(cnt - 1) |-> kron_all(P_z, x, cnt - 1, cnt)]

\* Gamma_Dict (10.71, 42.58, 60.86) in units of 10, to the nearest integer:
\* which ratios are equal, their signs and their order are kept.
GammaVal(label) ==
    CASE label = "13C" -> 1
      [] label = "1H"  -> 4
      [] OTHER         -> 6

RECURSIVE MSumTo(_, _, _)
MSumTo(F, q, d) ==
    IF q < 1 THEN MZeros(d) ELSE MAdd(MSumTo(F, q - 1, d), F[q])

\* The inputs: isotope lists of two known labels, a real n x n coupling matrix
\* (strict upper triangle drawn entry by entry, one value for the diagonal
\* and the lower triangle) and a real field.  Couplings are in units of
\* 10 Hz, as are all frequencies below.
ValidIsoLists == SeqsUpTo({"1H", "13C"}, MaxSpins) \ {<<>>}
JValues == {0, 1}
JFills  == {0, 2}
Fields  == {0, 1}
UpperIdx(cnt) == {rc \in Idx(cnt) : rc[1] < rc[2]}
JMats(cnt) ==
    {[rc \in Idx(cnt) |-> IF rc[1] < rc[2] THEN up[rc] ELSE fill] :
        up \in [UpperIdx(cnt) -> JValues], fill \in JFills}

NoSys == [state |-> "none", isos |-> <<>>, J |-> <<>>, B |-> 0]
NoHam == [kind |-> "none", reads |-> <<>>, H |-> MZeros(1)]
NoSpectrum == [status |-> "none", f |-> <<>>, w |-> <<>>]

\* calculation.H_zemmen: sum of 2*pi*gamma[i]*magnetic_field*Iz[i], stored
\* times 2/(2*pi).
H_zemmen(sys) ==
    LET cnt == Len(sys.isos)
        Iz  == I_z(cnt)
    IN  MSumTo([q \in 1..cnt |->
                   MScale(CReal(GammaVal(sys.isos[q]) * sys.B), Iz[q - 1])],
               cnt, TwoTo(cnt))

\* Faulty variant of H_coupling_mat: the coupling of a pair is taken as the
\* sum of J[i][j] and J[j][i].
H_coupling_mat_BothTriangles(sys) ==
    LET cnt   == Len(sys.isos)
        Ix    == I_x(cnt)
        Iy    == I_y(cnt)
        Iz    == I_z(cnt)
        reads == CouplingReads(0, 1, cnt)
    IN  [reads |-> reads,
         H |-> MSumTo([q \in 1..Len(reads) |->
                  LET x == reads[q][1]
                      y == reads[q][2]
                  IN  MScale(CReal(sys.J[<<x, y>>] + sys.J[<<y, x>>]),
                             MAdd(MAdd(MMul(Ix[x], Ix[y]), MMul(Iy[x], Iy[y])),
                                  MMul(Iz[x], Iz[y])))],
               Len(reads), TwoTo(cnt))]

\* calculation.H_coupling: for i < j in loop order, the terms
\* 2*pi*J[i][j]*(Ix[i]@Ix[j] + Iy[i]@Iy[j] + Iz[i]@Iz[j]); `reads` are the
\* entries of J the loops index; H is stored times 4/(2*pi).
H_coupling_mat(sys) ==
    LET cnt   == Len(sys.isos)
        Ix    == I_x(cnt)
        Iy    == I_y(cnt)
        Iz    == I_z(cnt)
        reads == CouplingReads(0, 1, cnt)
    IN  [reads |-> reads,
         H |-> MSumTo([q \in 1..Len(reads) |->
                  LET x == reads[q][1]
                      y == reads[q][2]
                  IN  MScale(CReal(sys.J[<<x, y>>]),
                             MAdd(MAdd(MMul(Ix[x], Ix[y]), MMul(Iy[x], Iy[y])),
                                  MMul(Iz[x], Iz[y])))],
               Len(reads), TwoTo(cnt))]

\* Faulty variant of H_total_mat: the coupling term enters with a factor 1j.
H_total_mat_ImagCoupling(sys) ==
    MAdd(MScale(CReal(2), H_zemmen(sys)),
         MScale(<<0, 1>>, H_coupling_mat(sys).H))

\* calculation.H_total: H_zemmen() + H_coupling(), stored times 4/(2*pi).
H_total_mat(sys) ==
    MAdd(MScale(CReal(2), H_zemmen(sys)), H_coupling_mat(sys).H)

HamIdle ==
    /\ msys = NoSys
    /\ mham = NoHam
    /\ mstick = NoSpectrum

\* system(isos), interaction(coupling) and environment(magnetic_field) are
\* made and a calculation is constructed from them.
MatNew ==
    /\ msys.state = "none"
    /\ \E l \in ValidIsoLists, fld \in Fields :
          \E jm \in JMats(Len(l)) :
             msys' = [state |-> "set", isos |-> l, J |-> jm, B |-> fld]
    /\ UNCHANGED <<mham, mstick>>
    /\ UNCHANGED nonham

\* One call of H_zemmen, H_coupling or H_total on the calculation object.
CallHZemmen ==
    /\ msys.state = "set"
    /\ mham.kind = "none"
    /\ mham' = [kind |-> "H_zemmen", reads |-> <<>>, H |-> H_zemmen(msys)]
    /\ UNCHANGED <<msys, mstick>>
    /\ UNCHANGED nonham

CallHCoupling ==
    /\ msys.state = "set"
    /\ mham.kind = "none"
    /\ mham' = [kind |-> "H_coupling", reads |-> H_coupling_mat(msys).reads,
                H |-> H_coupling_mat(msys).H]
    /\ UNCHANGED <<msys, mstick>>
    /\ UNCHANGED nonham

CallHTotal ==
    /\ msys.state = "set"
    /\ mham.kind = "none"
    /\ mham' = [kind |-> "H_total", reads |-> H_coupling_mat(msys).reads,
                H |-> H_total_mat(msys)]
    /\ UNCHANGED <<msys, mstick>>
    /\ UNCHANGED nonham

\* operation.operator and operation.rho0: sum of 2*pi*gamma[i]*Ix[i], stored
\* times 2/(2*pi).
operator(sys) ==
    LET cnt == Len(sys.isos)
        Ix  == I_x(cnt)
    IN  MSumTo([q \in 1..cnt |->
                   MScale(CReal(GammaVal(sys.isos[q])), Ix[q - 1])],
               cnt, TwoTo(cnt))

rho0_mat(sys) ==
    LET cnt == Len(sys.isos)
        Ix  == I_x(cnt)
    IN  MSumTo([q \in 1..cnt |->
                   MScale(CReal(GammaVal(sys.isos[q])), Ix[q - 1])],
               cnt, TwoTo(cnt))

\* The pulse: <<Bx, By, Bz>>.
Pulses == {<<1, 0, 0>>, <<0, 1, 1>>}

\* Lines 245-250: H_glob_pulse = self.H + sum of
\* 2*pi*gamma[o]*(Bx*Ix[o] + By*Iy[o] + Bz*Iz[o]), stored times 4/(2*pi).
H_glob_pulse(sys, pl) ==
    LET cnt == Len(sys.isos)
        Ix  == I_x(cnt)
        Iy  == I_y(cnt)
        Iz  == I_z(cnt)
    IN  MAdd(H_total_mat(sys),
             MSumTo([q \in 1..cnt |->
                       MScale(CReal(2 * GammaVal(sys.isos[q])),
                              MAdd(MAdd(MScale(CReal(pl[1]), Ix[q - 1]),
                                        MScale(CReal(pl[2]), Iy[q - 1])),
                                   MScale(CReal(pl[3]), Iz[q - 1])))],
                    cnt, TwoTo(cnt)))

\* scipy.linalg.expm(-1j * G * t), by its power series cut after the term
\* of the given order (order 0 is the value for t = 0), in the time unit in
\* which G * t is the stored matrix.
ExpmOrders == {0, 1}
expm(G, order) ==
    IF order = 0 THEN MEye(G.d)
    ELSE MAdd(MEye(G.d), MScale(<<0, -1>>, G))

\* operation.p_pulse
p_pulse_mat(sys, pl, order) == expm(H_glob_pulse(sys, pl), order)

\* operation.rho_pulse: p_pulse() @ rho0() @ p_pulse().conj().T
rho_pulse_mat(sys, pl, order) ==
    MMul(MMul(p_pulse_mat(sys, pl, order), rho0_mat(sys)),
         MConjT(p_pulse_mat(sys, pl, order)))

\* np.linalg.eigh.  An eigenvector is held as a real integer vector that is
\* not normalised: one or two entries of size 1, the first of them positive.
\* Within a degenerate level any orthogonal basis may be returned; the
\* phase of a vector and the order inside a level are fixed here.
VecCands(d) ==
    {v \in [0..(d - 1) -> {-1, 0, 1}] :
        /\ Cardinality({x \in 0..(d - 1) : v[x] # 0}) \in {1, 2}
        /\ \A x \in 0..(d - 1) :
              v[x] = -1 => \E y \in 0..(x - 1) : v[y] = 1}

RECURSIVE VDotTo(_, _, _)
VDotTo(u, v, q) == IF q < 0 THEN 0 ELSE u[q] * v[q] + VDotTo(u, v, q - 1)

\* Row r of H applied to v.
RECURSIVE RowDotTo(_, _, _, _)
RowDotTo(H, r, v, q) ==
    IF q < 0 THEN CZero
    ELSE CAdd(CMul(CReal(v[q]), H.e[<<r, q>>]), RowDotTo(H, r, v, q - 1))

Lead(v, d) == CHOOSE x \in 0..(d - 1) : v[x] # 0 /\ \A y \in 0..(x - 1) : v[y] = 0

\* The eigenvalue of v, if H v is a real multiple of v.
EigVal(H, v) == RowDotTo(H, Lead(v, H.d), v, H.d - 1)[1]
IsEigVec(H, v) ==
    \A r \in 0..(H.d - 1) :
       RowDotTo(H, r, v, H.d - 1) = <<EigVal(H, v) * v[r], 0>>

\* A fixed order of the candidate vectors.
VecBefore(u, v, d) ==
    \E x \in 0..(d - 1) : u[x] < v[x] /\ \A y \in 0..(x - 1) : u[y] = v[y]

RECURSIVE EigBases(_, _, _)
EigBases(H, vecs, part) ==
    IF Len(part) = H.d THEN {part}
    ELSE UNION {EigBases(H, vecs, Append(part, v)) :
                  v \in {u \in vecs :
                           /\ \A q \in 1..Len(part) :
                                 VDotTo(u, part[q], H.d - 1) = 0
                           /\ part # <<>> =>
                                 LET prev == part[Len(part)] IN
                                 \/ EigVal(H, prev) < EigVal(H, u)
                                 \/ /\ EigVal(H, prev) = EigVal(H, u)
                                    /\ VecBefore(prev, u, H.d)}}

\* The results eigh may give: eigenvalues ascending, eigenvectors as the
\* columns of V.
eigh(H) ==
    LET vecs == {v \in VecCands(H.d) : IsEigVec(H, v)}
    IN  {[eigvals |-> [q \in 1..H.d |-> EigVal(H, bs[q])],
          V |-> Mat(H.d, LAMBDA r, c : CReal(bs[c + 1][r]))] :
            bs \in EigBases(H, vecs, <<>>)}

AbsDiff(x, y) == IF x >= y THEN x - y ELSE y - x

\* simulation.freq_domain, lines 297-320, on a system of two spins: f is
\* stored times 4 and the weights times a positive factor.
freq_domain(sys, pl, order, eg) ==
    LET d       == eg.V.d
        rho_eig == MMul(MMul(MConjT(eg.V), rho_pulse_mat(sys, pl, order)), eg.V)
        O_eig   == MMul(MMul(MConjT(eg.V), operator(sys)), eg.V)
        f       == [rc \in Idx(d) |->
                      IF rc[1] < rc[2]
                      THEN AbsDiff(eg.eigvals[rc[2] + 1], eg.eigvals[rc[1] + 1])
                      ELSE 0]
        weights == [rc \in Idx(d) |->
                      IF rc[1] < rc[2]
                      THEN CMul(rho_eig.e[<<rc[1], rc[2]>>],
                                O_eig.e[<<rc[2], rc[1]>>])
                      ELSE CZero]
        idx     == TriuIndices(d)
    IN  [status |-> "returned",
         f |-> [q \in 1..Len(idx) |-> f[idx[q]]],
         w |-> [q \in 1..Len(idx) |-> weights[idx[q]]]]

FreqDomainPair ==
    /\ msys.state = "set"
    /\ Len(msys.isos) = 2
    /\ mstick.status = "none"
    /\ mham.kind = "none"
    /\ \E eg \in eigh(H_total_mat(msys)) :
          \E pl \in Pulses, order \in ExpmOrders :
             mstick' = freq_domain(msys, pl, order, eg)
    /\ UNCHANGED <<msys, mham>>
    /\ UNCHANGED nonham

NextHam ==
    MatNew \/ CallHZemmen \/ CallHCoupling \/ CallHTotal \/ FreqDomainPair

\* ------------------------------------------------------------------------
\* SignalProcessor.apodisation / fft / freq and data.freq
\*
\* A rational number is a pair <<numerator, denominator>> with a positive
\* denominator.  A sample is a record: v names the FID value it came from,
\* exp is the exponent of the window factor it was multiplied by, and halves
\* counts the multiplications by 0.5.
\* ------------------------------------------------------------------------
RInt(x) == <<x, 1>>
RAdd(x, y) == <<x[1] * y[2] + y[1] * x[2], x[2] * y[2]>>
RSub(x, y) == <<x[1] * y[2] - y[1] * x[2], x[2] * y[2]>>
RMulInt(q, x) == <<q * x[1], x[2]>>
RDivInt(x, q) == <<x[1], x[2] * q>>
REq(x, y) == x[1] * y[2] = y[1] * x[2]

\* np.linspace(start, stop, num): start + q * (stop - start) / (num - 1).
linspace(start, stop, num) ==
    [q \in 1..num |->
        IF num = 1 THEN start
        ELSE RAdd(start, RDivInt(RMulInt(q - 1, RSub(stop, start)), num - 1))]

SampleIds == {1, 2}
PSample(id) == [v |-> id, exp |-> RInt(0), halves |-> 0]
FidArrays == UNION {[1..len -> {PSample(id) : id \in SampleIds}] :
                       len \in 0..MaxPoints}
Decays == {0, 1}
Sweeps == {1, 2}
\* The zerofill argument: None, or a length.
ZeroFills == {[none |-> TRUE, len |-> 0]}
                \cup {[none |-> FALSE, len |-> x] : x \in 0..(MaxPoints + 1)}

ProcMethods == {"apodisation", "fft", "freq", "data.freq"}
NoOut == [status |-> "none", out |-> <<>>, arg |-> 0]

ProcIdle ==
    /\ pin = <<>>
    /\ pres = [mth \in ProcMethods |-> [NoOut EXCEPT !.status = "no input"]]

\* A caller's FID array comes into being.
ProcInput ==
    /\ pres["apodisation"].status = "no input"
    /\ \E arr \in FidArrays : pin' = arr
    /\ pres' = [mth \in ProcMethods |-> NoOut]
    /\ UNCHANGED nonproc

\* fid * window: a new array, sample by sample.
Windowed(arr, window) ==
    [q \in 1..Len(arr) |-> [arr[q] EXCEPT !.exp = RAdd(@, window[q])]]

\* Faulty variant of apodisation: the last point is halved, not the first.
apodisation_HalvesLast(arr, decay) ==
    LET window  == [q \in 1..Len(arr) |->
                       RMulInt(-decay, linspace(RInt(0), RInt(1), Len(arr))[q])]
        fid_win == Windowed(arr, window)
    IN  IF Len(arr) = 0
        THEN [status |-> "IndexError", out |-> <<>>, arg |-> decay]
        ELSE [status |-> "returned",
              out |-> [fid_win EXCEPT ![Len(arr)].halves = @ + 1],
              arg |-> decay]

\* SignalProcessor.apodisation: window = np.exp(-decay * np.linspace(0, 1,
\* n)), held by its exponents; fid_win = fid * window; fid_win[0] *= 0.5
\* raises IndexError on an empty array.
apodisation(arr, decay) ==
    LET window  == [q \in 1..Len(arr) |->
                       RMulInt(-decay, linspace(RInt(0), RInt(1), Len(arr))[q])]
        fid_win == Windowed(arr, window)
    IN  IF Len(arr) = 0
        THEN [status |-> "IndexError", out |-> <<>>, arg |-> decay]
        ELSE [status |-> "returned",
              out |-> [fid_win EXCEPT ![1].halves = @ + 1],
              arg |-> decay]

CallApodisation ==
    /\ pres["apodisation"].status = "none"
    /\ \E decay \in Decays :
          pres' = [pres EXCEPT !["apodisation"] = apodisation(pin, decay)]
    /\ UNCHANGED pin
    /\ UNCHANGED nonproc

\* np.fft.fftshift: the element at position q moves to (q + n // 2) mod n.
fftshift(x) ==
    LET len == Len(x)
    IN  [q \in 1..len |-> x[((q - 1 - (len \div 2)) % len) + 1]]

\* np.fft.fft(a, n=cnt): the input is cropped or zero-padded to cnt points;
\* output point q is the DFT bin q of those points.
Padded(arr, cnt) ==
    [q \in 1..cnt |-> IF q <= Len(arr) THEN arr[q]
                      ELSE [v |-> 0, exp |-> RInt(0), halves |-> 0]]
np_fft(arr, cnt) ==
    [q \in 1..cnt |-> [bin |-> q - 1, data |-> Padded(arr, cnt), div |-> 1]]

\* Faulty variant of fft: the zero-fill length is not passed on.
fft_IgnoresZerofill(arr, zerofill) ==
    LET zf == IF zerofill.none THEN Len(arr) ELSE zerofill.len
    IN  IF zf < 1
        THEN [status |-> "ValueError", out |-> <<>>, arg |-> zf]
        ELSE [status |-> "returned",
              out |-> [q \in 1..Len(arr) |->
                         [fftshift(np_fft(arr, Len(arr)))[q] EXCEPT !.div = zf]],
              arg |-> zf]

\* SignalProcessor.fft: zerofill None means len(fid); np.fft.fft raises
\* ValueError for n < 1; the shifted spectrum is divided by zerofill.
fft(arr, zerofill) ==
    LET zf == IF zerofill.none THEN Len(arr) ELSE zerofill.len
    IN  IF zf < 1
        THEN [status |-> "ValueError", out |-> <<>>, arg |-> zf]
        ELSE [status |-> "returned",
              out |-> [q \in 1..zf |->
                         [fftshift(np_fft(arr, zf))[q] EXCEPT !.div = zf]],
              arg |-> zf]

\* The method is applied to the apodised array when there is one, else to
\* the caller's array.
CallFft ==
    /\ pres["fft"].status = "none"
    /\ pres["apodisation"].status # "no input"
    /\ \E zerofill \in ZeroFills :
          \E arr \in {pin} \cup (IF pres["apodisation"].status = "returned"
                                  THEN {pres["apodisation"].out} ELSE {}) :
             pres' = [pres EXCEPT !["fft"] = fft(arr, zerofill)]
    /\ UNCHANGED pin
    /\ UNCHANGED nonproc

\* np.fft.fftfreq(cnt, d) with d = 1 / sweep: bins 0 .. (cnt-1)//2, then
\* -(cnt//2) .. -1, each over cnt * d.
fftfreq(cnt, sweep) ==
    [q \in 1..cnt |->
        <<(IF q - 1 <= (cnt - 1) \div 2 THEN q - 1 ELSE q - 1 - cnt) * sweep,
          cnt>>]

\* SignalProcessor.freq(spectrum, dt) with dt = 1 / sweep.
freq(spectrum, sweep) ==
    [status |-> "returned", out |-> fftshift(fftfreq(Len(spectrum), sweep)),
     arg |-> sweep]

\* data.freq(spectrum) of the Spinach bridge, with offset 0: df = sweep / N;
\* np.linspace(-sweep/2, sweep/2 - df, N).
data_freq(spectrum, sweep) ==
    LET cnt == Len(spectrum)
        df  == <<sweep, cnt>>
    IN  [status |-> "returned",
         out |-> linspace(<<-sweep, 2>>, RSub(<<sweep, 2>>, df), cnt),
         arg |-> sweep]

CallFreq ==
    /\ pres["fft"].status = "returned"
    /\ pres["freq"].status = "none"
    /\ \E sweep \in Sweeps :
          pres' = [pres EXCEPT !["freq"] = freq(pres["fft"].out, sweep)]
    /\ UNCHANGED pin
    /\ UNCHANGED nonproc

CallDataFreq ==
    /\ pres["fft"].status = "returned"
    /\ pres["data.freq"].status = "none"
    /\ \E sweep \in Sweeps :
          pres' = [pres EXCEPT !["data.freq"] =
                                  data_freq(pres["fft"].out, sweep)]
    /\ UNCHANGED pin
    /\ UNCHANGED nonproc

NextProc ==
    ProcInput \/ CallApodisation \/ CallFft \/ CallFreq \/ CallDataFreq

\* ------------------------------------------------------------------------
\* network_interface/task_manager.py: SimulationTask and TaskManager
\* ------------------------------------------------------------------------
None == -1

TaskStatus == {"pending", "queued", "running", "completed", "failed",
               "cancelled", "unknown"}

\* SimulationTask.is_terminal
is_terminal(task) == task.status \in {"completed", "failed", "cancelled"}

TaskIds == {"t1", "t2", "t3"}
Times == 0..1
CacheSizes == 0..2
ProgressArgs == {None, 25, 75}
ErrorArgs == {"None", "boom"}

\* SimulationTask(task_id=id, status=st) made at time t.
SimulationTask(id, st, t) ==
    [task_id |-> id, status |-> st, result |-> "None", error |-> "None",
     created_at |-> t, started_at |-> None, completed_at |-> None,
     progress |-> 0]

\* self.tasks.get(task_id): the position of the task, 0 for None.
Pos(dict, id) ==
    IF \E q \in 1..Len(dict) : dict[q].task_id = id
    THEN CHOOSE q \in 1..Len(dict) : dict[q].task_id = id
    ELSE 0

\* self.tasks[task_id] = task: an existing key keeps its place.
DictSet(dict, task) ==
    IF Pos(dict, task.task_id) = 0 THEN Append(dict, task)
    ELSE [dict EXCEPT ![Pos(dict, task.task_id)] = task]

RECURSIVE Without(_, _)
Without(dict, drop) ==
    IF dict = <<>> THEN <<>>
    ELSE IF Head(dict).task_id \in drop THEN Without(Tail(dict), drop)
    ELSE <<Head(dict)>> \o Without(Tail(dict), drop)

\* Position of entry q in sorted(self.tasks.items(), key=created_at): the
\* sort is stable, so equal keys keep the dict's order.
SortedPos(dict, q) ==
    1 + Cardinality({x \in 1..Len(dict) :
                        \/ dict[x].created_at < dict[q].created_at
                        \/ dict[x].created_at = dict[q].created_at /\ x < q})

\* TaskManager._cleanup_cache
cleanup_cache(dict, size) ==
    IF Len(dict) <= size THEN dict
    ELSE LET num_to_remove == Len(dict) - size
         IN  Without(dict, {dict[q].task_id : q \in {x \in 1..Len(dict) :
                                 SortedPos(dict, x) <= num_to_remove}})

NoCall == [op |-> "none", id |-> "none", raised |-> FALSE, full |-> <<>>]

TaskIdle ==
    /\ tasks = <<>>
    /\ max_cache_size = None
    /\ now = 0
    /\ tcall = NoCall

\* TaskManager(max_cache_size)
NewManager ==
    /\ max_cache_size = None
    /\ \E size \in CacheSizes : max_cache_size' = size
    /\ UNCHANGED <<tasks, now, tcall>>
    /\ UNCHANGED nontask

\* Time passes.
Tick ==
    /\ max_cache_size # None
    /\ now + 1 \in Times
    /\ now' = now + 1
    /\ UNCHANGED <<tasks, max_cache_size, tcall>>
    /\ UNCHANGED nontask

\* TaskManager.create_task
create_task(id) ==
    /\ max_cache_size # None
    /\ LET full == DictSet(tasks, SimulationTask(id, "pending", now)) IN
          /\ tasks' = cleanup_cache(full, max_cache_size)
          /\ tcall' = [op |-> "create_task", id |-> id, raised |-> FALSE,
                       full |-> full]
    /\ UNCHANGED <<max_cache_size, now>>
    /\ UNCHANGED nontask

\* The body of update_task_status, lines 152-169: self.tasks after the call
\* at time t.
StatusUpdated(dict, id, status, progress, error, t) ==
    LET q == Pos(dict, id) IN
       IF q = 0 THEN dict
       ELSE LET t1 == [dict[q] EXCEPT
                          !.status = status,
                          !.progress = IF progress # None THEN progress ELSE @,
                          !.error = IF error # "None" THEN error ELSE @]
                t2 == IF status = "running" /\ t1.started_at = None
                      THEN [t1 EXCEPT !.started_at = t] ELSE t1
                t3 == IF is_terminal(t2) /\ t2.completed_at = None
                      THEN [t2 EXCEPT
                              !.completed_at = t,
                              !.progress = IF status = "completed"
                                           THEN 100 ELSE @]
                      ELSE t2
            IN  [dict EXCEPT ![q] = t3]

\* TaskManager.update_task_status
update_task_status(id, status, progress, error) ==
    /\ max_cache_size # None
    /\ tasks' = StatusUpdated(tasks, id, status, progress, error, now)
    /\ tcall' = [op |-> "update_task_status", id |-> id, raised |-> FALSE,
                 full |-> <<>>]
    /\ UNCHANGED <<max_cache_size, now>>
    /\ UNCHANGED nontask

\* Faulty variant of set_task_result: the status test is left out.
set_task_result_AlwaysCompletes(id) ==
    /\ max_cache_size # None
    /\ LET q == Pos(tasks, id) IN
          IF q = 0 THEN UNCHANGED tasks
          ELSE tasks' = [tasks EXCEPT ![q] =
                           [@ EXCEPT !.result = "r", !.status = "completed",
                                     !.completed_at = now, !.progress = 100]]
    /\ tcall' = [op |-> "set_task_result", id |-> id, raised |-> FALSE,
                 full |-> <<>>]
    /\ UNCHANGED <<max_cache_size, now>>
    /\ UNCHANGED nontask

\* TaskManager.set_task_result
set_task_result(id) ==
    /\ max_cache_size # None
    /\ LET q == Pos(tasks, id) IN
          IF q = 0 THEN UNCHANGED tasks
          ELSE IF tasks[q].status # "failed"
          THEN tasks' = [tasks EXCEPT ![q] =
                           [@ EXCEPT !.result = "r", !.status = "completed",
                                     !.completed_at = now, !.progress = 100]]
          ELSE tasks' = [tasks EXCEPT ![q].result = "r"]
    /\ tcall' = [op |-> "set_task_result", id |-> id, raised |-> FALSE,
                 full |-> <<>>]
    /\ UNCHANGED <<max_cache_size, now>>
    /\ UNCHANGED nontask

\* TaskManager.cancel_task
cancel_task(id) ==
    /\ update_task_status(id, "cancelled", None, "None")

\* TaskManager.remove_task
remove_task(id) ==
    /\ max_cache_size # None
    /\ tasks' = Without(tasks, {id})
    /\ tcall' = [op |-> "remove_task", id |-> id, raised |-> FALSE,
                 full |-> <<>>]
    /\ UNCHANGED <<max_cache_size, now>>
    /\ UNCHANGED nontask

\* TaskManager.clear_completed
clear_completed ==
    /\ max_cache_size # None
    /\ tasks' = Without(tasks, {tasks[q].task_id : q \in {x \in 1..Len(tasks) :
                                  tasks[x].status = "completed"}})
    /\ tcall' = [op |-> "clear_completed", id |-> "none", raised |-> FALSE,
                 full |-> <<>>]
    /\ UNCHANGED <<max_cache_size, now>>
    /\ UNCHANGED nontask

\* TaskManager.clear_all
clear_all ==
    /\ max_cache_size # None
    /\ tasks' = <<>>
    /\ tcall' = [op |-> "clear_all", id |-> "none", raised |-> FALSE,
                 full |-> <<>>]
    /\ UNCHANGED <<max_cache_size, now>>
    /\ UNCHANGED nontask

\* The files import_tasks may read: one entry, or one of "t1" and then one
\* of "t2", each with a status string (which need not be a TaskStatus
\* value) and a created_at.
FileStatus == {"pending", "error"}
FileEntries == [task_id : TaskIds, status : FileStatus, created_at : Times]
Files ==
    {<<x>> : x \in FileEntries}
       \cup {<<x, y>> : x \in {z \in FileEntries : z.task_id = "t1"},
                        y \in {z \in FileEntries : z.task_id = "t2"}}

\* SimulationTask.from_dict: TaskStatus(data['status']) raises ValueError
\* for a string that is no TaskStatus value.
FromDictRaises(entry) == entry.status \notin TaskStatus

\* The loop of import_tasks, lines 310-312: entries are set one by one and
\* the loop is left at the first entry from_dict raises on.
RECURSIVE ImportLoop(_, _)
ImportLoop(dict, file) ==
    IF file = <<>> THEN [dict |-> dict, raised |-> FALSE]
    ELSE IF FromDictRaises(Head(file)) THEN [dict |-> dict, raised |-> TRUE]
    ELSE ImportLoop(DictSet(dict, SimulationTask(Head(file).task_id,
                                                  Head(file).status,
                                                  Head(file).created_at)),
                    Tail(file))

\* TaskManager.import_tasks: _cleanup_cache runs after the loop, so not when
\* the loop raised.
import_tasks(file) ==
    /\ max_cache_size # None
    /\ LET r == ImportLoop(tasks, file) IN
          /\ tasks' = IF r.raised THEN r.dict
                      ELSE cleanup_cache(r.dict, max_cache_size)
          /\ tcall' = [op |-> "import_tasks", id |-> "none",
                       raised |-> r.raised, full |-> r.dict]
    /\ UNCHANGED <<max_cache_size, now>>
    /\ UNCHANGED nontask

\* The cache: three task ids, every file, status changes by cancel_task.
NextCache ==
    \/ NewManager
    \/ Tick
    \/ \E id \in TaskIds : create_task(id)
    \/ \E id \in TaskIds : cancel_task(id)
    \/ \E id \in TaskIds : remove_task(id)
    \/ clear_completed
    \/ clear_all
    \/ \E file \in Files : import_tasks(file)

\* One task's life: "t1" is created, "t2" stays an unknown id.
KnownIds == {"t1"}
CallIds == {"t1", "t2"}

NextTask ==
    \/ NewManager
    \/ Tick
    \/ \E id \in KnownIds : create_task(id)
    \/ \E id \in CallIds, status \in TaskStatus, progress \in ProgressArgs,
          error \in ErrorArgs : update_task_status(id, status, progress, error)
    \/ \E id \in CallIds : set_task_result(id)
    \/ \E id \in CallIds : cancel_task(id)
    \/ \E id \in CallIds : remove_task(id)

\* ------------------------------------------------------------------------
\* network_interface/task_manager.py: TaskMonitor
\* ------------------------------------------------------------------------
MaxPollTimes == {0, 1}
MonIds == {"t1"}

\* An entry of self._monitoring; on = FALSE stands for "task_id not in
\* self._monitoring".
NotMonitored == [on |-> FALSE, start_time |-> 0, last_status |-> "None"]

\* What a poll_once call did: the value returned (or that it raised), what
\* get_status_func gave it, whether the callback was called, with which
\* status and whether the task was in self._monitoring at that moment.
NoPoll == [id |-> "none", ret |-> "none", raised |-> FALSE, got |-> "none",
           called |-> FALSE, arg |-> "None", oncall |-> FALSE]

MonitorIdle ==
    /\ monitoring = [id \in MonIds |-> NotMonitored]
    /\ max_poll_time = None
    /\ pcall = NoPoll
    /\ cbs = [id \in MonIds |-> "None"]

\* TaskMonitor(task_manager, max_poll_time=...)
NewMonitor ==
    /\ max_cache_size # None
    /\ max_poll_time = None
    /\ \E limit \in MaxPollTimes : max_poll_time' = limit
    /\ UNCHANGED <<monitoring, pcall, cbs>>
    /\ UNCHANGED nonmon

\* TaskMonitor.start_monitoring
start_monitoring(id) ==
    /\ max_poll_time # None
    /\ monitoring' = [monitoring EXCEPT ![id] =
                        [on |-> TRUE, start_time |-> now, last_status |-> "None"]]
    /\ cbs' = [cbs EXCEPT ![id] = "None"]
    /\ UNCHANGED <<max_poll_time, pcall>>
    /\ UNCHANGED nonmon

\* TaskMonitor.stop_monitoring
stop_monitoring(id) ==
    /\ max_poll_time # None
    /\ monitoring' = [monitoring EXCEPT ![id] = NotMonitored]
    /\ UNCHANGED <<max_poll_time, pcall, cbs>>
    /\ UNCHANGED nonmon

\* What get_status_func does: it raises, returns None, or returns a dict whose
\* 'status' is a TaskStatus value, the string 'error' (CloudBackend's answer
\* to a failed request), or absent.
Info(kind, status, progress, error) ==
    [kind |-> kind, status |-> status, progress |-> progress, error |-> error]

StatusInfos ==
    {Info("raise", "absent", None, "None"),
     Info("none", "absent", None, "None"),
     Info("dict", "absent", None, "None"),
     Info("dict", "running", None, "None"),
     Info("dict", "running", 25, "None"),
     Info("dict", "completed", None, "None"),
     Info("dict", "failed", None, "boom"),
     Info("dict", "error", 25, "boom")}

\* status_info.get('status', 'unknown')
StatusOf(info) == IF info.status = "absent" THEN "unknown" ELSE info.status

\* Faulty variant of PollUpdates: any status string is passed on.
PollUpdates_AnyString(info) == info.kind = "dict"

\* Lines 394-405 reach update_task_status: get_status_func returned a
\* non-empty dict and TaskStatus(...) did not raise.
PollUpdates(info) == info.kind = "dict" /\ StatusOf(info) \in TaskStatus

\* What the try block of lines 394-405 met.
Got(info) ==
    CASE info.kind = "raise" -> "raised"
      [] info.kind = "none" -> "nothing"
      [] info.kind = "dict" /\ StatusOf(info) \notin TaskStatus -> "bad status"
      [] OTHER -> "status"

\* Faulty variant of StatusChanged: every poll counts as a change.
StatusChanged_Always(current_status, last_status) == TRUE

\* Line 408: current_status != monitor_info['last_status']
StatusChanged(current_status, last_status) == current_status # last_status

\* Faulty variant of StopsAfter: only a completed task ends the monitoring.
StopsAfter_CompletedOnly(task) == task.status = "completed"

\* Line 414: task.is_terminal()
StopsAfter(task) == is_terminal(task)

\* TaskMonitor.poll_once
poll_once(id, info) ==
    /\ max_poll_time # None
    /\ IF ~monitoring[id].on
       THEN /\ pcall' = [NoPoll EXCEPT !.id = id, !.ret = "False"]
            /\ UNCHANGED <<monitoring, cbs, tasks, tcall>>
       ELSE IF now - monitoring[id].start_time > max_poll_time
               \/ Pos(tasks, id) = 0
       THEN /\ monitoring' = [monitoring EXCEPT ![id] = NotMonitored]
            /\ pcall' = [NoPoll EXCEPT !.id = id, !.ret = "False"]
            /\ UNCHANGED <<cbs, tasks, tcall>>
       ELSE LET tasks1 == IF PollUpdates(info)
                          THEN StatusUpdated(tasks, id, StatusOf(info),
                                             info.progress, info.error, now)
                          ELSE tasks
                task == tasks1[Pos(tasks1, id)]
                current_status == task.status
                changed == StatusChanged(current_status,
                                         monitoring[id].last_status)
                info1 == IF changed
                         THEN [monitoring[id] EXCEPT !.last_status = current_status]
                         ELSE monitoring[id]
            IN  /\ tasks' = tasks1
                /\ tcall' = IF PollUpdates(info)
                            THEN [op |-> "update_task_status", id |-> id,
                                  raised |-> FALSE, full |-> <<>>]
                            ELSE tcall
                /\ cbs' = IF changed
                          THEN [cbs EXCEPT ![id] = current_status]
                          ELSE cbs
                /\ monitoring' = [monitoring EXCEPT ![id] =
                                    IF StopsAfter(task) THEN NotMonitored
                                    ELSE info1]
                /\ pcall' = [id |-> id,
                             ret |-> IF StopsAfter(task) THEN "False" ELSE "True",
                             raised |-> FALSE,
                             got |-> Got(info),
                             called |-> changed,
                             arg |-> IF changed THEN current_status ELSE "None",
                             oncall |-> changed /\ info1.on]
    /\ UNCHANGED <<max_cache_size, now, max_poll_time>>
    /\ UNCHANGED nontaskmon

OutsideStatus == {"running", "cancelled"}

\* A monitored task: "t1" is created, changed from outside, removed and
\* polled.
NextMonitor ==
    \/ NewManager
    \/ NewMonitor
    \/ Tick
    \/ \E id \in KnownIds : create_task(id)
    \/ \E id \in KnownIds, status \in OutsideStatus :
          update_task_status(id, status, None, "None")
    \/ \E id \in KnownIds : remove_task(id)
    \/ \E id \in MonIds : start_monitoring(id)
    \/ \E id \in MonIds : stop_monitoring(id)
    \/ \E id \in MonIds, info \in StatusInfos : poll_once(id, info)

\* ------------------------------------------------------------------------
\* ui/splash_screen.py: InitializationWorker and SplashScreen
\* ------------------------------------------------------------------------
\* progress_percent.emit(p): the value emitted last and whether the values
\* so far never went down.
RECURSIVE Emitted(_, _)
Emitted(st, percents) ==
    IF percents = <<>> THEN st
    ELSE Emitted([last |-> Head(percents),
                  mono |-> st.mono /\ Head(percents) >= st.last],
                 Tail(percents))

Emit(percents) ==
    LET st == Emitted([last |-> plast, mono |-> pmono], percents)
    IN  plast' = st.last /\ pmono' = st.mono

NoEmit == UNCHANGED <<plast, pmono>>

\* The percentages of the milestones list, lines 298-311.
Milestones == <<48, 52, 56, 60, 63, 66, 69, 72, 76, 80, 84, 88>>

\* range(35, 91, 5), line 361, and the closing emit(90) of line 375.
FakePercents == <<35, 40, 45, 50, 55, 60, 65, 70, 75, 80, 85, 90, 90>>

\* The emits of lines 240-282.
SetupPercents == <<31, 33, 35, 37, 39, 41, 42, 42, 43>>

threadvars == <<tpc, tidx, tpercent, tstop>>

screenvars == <<inbox, handled, nhandled, closing, nclosed, hold, errbox>>

workervars == <<wpc, fin, fin_flag, entered, engine, failed1, escaped>>

SplashIdle ==
    /\ wpc = "none"
    /\ fin = <<>>
    /\ fin_flag = FALSE
    /\ entered = {}
    /\ engine = FALSE
    /\ failed1 = FALSE
    /\ escaped = FALSE
    /\ plast = None
    /\ pmono = TRUE
    /\ tpc = "none"
    /\ tidx = 0
    /\ tpercent = 0
    /\ tstop = FALSE
    /\ inbox = <<>>
    /\ handled = FALSE
    /\ nhandled = 0
    /\ closing = FALSE
    /\ nclosed = 0
    /\ hold = "none"
    /\ errbox = "none"

\* "if not self._finished_emitted: ...; self.finished.emit(success, ...)":
\* the signal is queued for the splash screen's thread.
FinishedEmit(success) ==
    IF fin_flag THEN UNCHANGED <<fin, fin_flag, inbox>>
    ELSE /\ fin_flag' = TRUE
         /\ fin' = Append(fin, success)
         /\ inbox' = Append(inbox, success)

\* The except clause of run, lines 95-114.
Except ==
    /\ escaped' = TRUE
    /\ FinishedEmit(FALSE)
    /\ wpc' = "done"

\* SplashScreen._start_worker
StartWorker ==
    /\ wpc = "none"
    /\ wpc' = "phase1"
    /\ UNCHANGED <<fin, fin_flag, entered, engine, failed1, escaped, plast,
                   pmono>>
    /\ UNCHANGED <<threadvars, inbox, handled, nhandled, closing, nclosed,
                   hold, errbox>>
    /\ UNCHANGED nonsplash

\* Faulty variant of AfterPhase1: run goes on after a failed phase 1.
AfterPhase1_GoesOn(ok) == "phase2"

\* Lines 55-56: "if not self._phase1_check_file_integrity(): return".
AfterPhase1(ok) == IF ok THEN "phase2" ELSE "done"

\* Phase 1, lines 116-150: the check passes, reports 'failed', raises inside
\* the try, or an exception leaves the method.
Phase1 ==
    /\ wpc = "phase1"
    /\ entered' = entered \cup {1}
    /\ \E outcome \in {"ok", "failed", "raised", "escaped"} :
          CASE outcome = "ok" ->
                  /\ Emit(<<0, 10>>)
                  /\ wpc' = AfterPhase1(TRUE)
                  /\ UNCHANGED <<fin, fin_flag, inbox, failed1, escaped>>
            [] outcome \in {"failed", "raised"} ->
                  /\ Emit(<<0>>)
                  /\ failed1' = TRUE
                  /\ FinishedEmit(FALSE)
                  /\ wpc' = AfterPhase1(FALSE)
                  /\ UNCHANGED escaped
            [] OTHER ->
                  /\ NoEmit
                  /\ Except
                  /\ UNCHANGED failed1
    /\ UNCHANGED <<engine, threadvars, handled, nhandled, closing, nclosed,
                   hold, errbox>>
    /\ UNCHANGED nonsplash

\* Phase 2, lines 152-169.
Phase2 ==
    /\ wpc = "phase2"
    /\ entered' = entered \cup {2}
    /\ \E outcome \in {"ok", "caught", "escaped"} :
          IF outcome = "escaped"
          THEN NoEmit /\ Except
          ELSE /\ Emit(<<12, 20>>)
               /\ wpc' = "phase3"
               /\ UNCHANGED <<fin, fin_flag, inbox, escaped>>
    /\ UNCHANGED <<engine, failed1, threadvars, handled, nhandled, closing,
                   nclosed, hold, errbox>>
    /\ UNCHANGED nonsplash

\* Phase 3, lines 171-216: the engine starts (phase 4 runs the real
\* simulation) or fails to (phase 4 fakes the progress).
Phase3 ==
    /\ wpc = "phase3"
    /\ entered' = entered \cup {3}
    /\ \E outcome \in {"ok", "caught", "escaped"} :
          IF outcome = "escaped"
          THEN NoEmit /\ Except /\ UNCHANGED engine
          ELSE /\ Emit(<<22, 30>>)
               /\ engine' = TRUE
               /\ wpc' = IF outcome = "ok" THEN "phase4 real" ELSE "phase4 fake"
               /\ UNCHANGED <<fin, fin_flag, inbox, escaped>>
    /\ UNCHANGED <<failed1, threadvars, handled, nhandled, closing, nclosed,
                   hold, errbox>>
    /\ UNCHANGED nonsplash

\* Phase 4 without MATLAB, lines 354-375.
Phase4Fake ==
    /\ wpc = "phase4 fake"
    /\ entered' = entered \cup {4}
    /\ \E outcome \in {"ok", "escaped"} :
          IF outcome = "escaped"
          THEN NoEmit /\ Except
          ELSE /\ Emit(FakePercents)
               /\ wpc' = "phase5"
               /\ UNCHANGED <<fin, fin_flag, inbox, escaped>>
    /\ UNCHANGED <<engine, failed1, threadvars, handled, nhandled, closing,
                   nclosed, hold, errbox>>
    /\ UNCHANGED nonsplash

\* Phase 4 with MATLAB, lines 239-333: the set-up emits its percentages and
\* starts the progress thread, or raises on the way (line 347).
Phase4Setup ==
    /\ wpc = "phase4 real"
    /\ entered' = entered \cup {4}
    /\ \E outcome \in {"ok", "caught"} :
          IF outcome = "ok"
          THEN /\ Emit(SetupPercents)
               /\ tpc' = "loop"
               /\ tidx' = 0
               /\ tpercent' = 43
               /\ tstop' = FALSE
               /\ wpc' = "create"
          ELSE /\ Emit(<<31, 90>>)
               /\ wpc' = "phase5"
               /\ UNCHANGED threadvars
    /\ UNCHANGED <<fin, fin_flag, engine, failed1, escaped, screenvars>>
    /\ UNCHANGED nonsplash

\* Line 336 returns and line 339 sets progress_tracker['stop'].
CreateReturns ==
    /\ wpc = "create"
    /\ tstop' = TRUE
    /\ wpc' = "created"
    /\ UNCHANGED <<fin, fin_flag, entered, engine, failed1, escaped, plast,
                   pmono, tpc, tidx, tpercent, screenvars>>
    /\ UNCHANGED nonsplash

\* Lines 340-345.
CreateDone ==
    /\ wpc = "created"
    /\ Emit(<<90, 90>>)
    /\ tpercent' = 90
    /\ wpc' = "phase5"
    /\ UNCHANGED <<fin, fin_flag, entered, engine, failed1, escaped, tpc, tidx,
                   tstop, screenvars>>
    /\ UNCHANGED nonsplash

\* sim_obj.create() raises: lines 347-351, progress_tracker is left alone.
CreateRaises ==
    /\ wpc = "create"
    /\ Emit(<<90>>)
    /\ wpc' = "phase5"
    /\ UNCHANGED <<fin, fin_flag, entered, engine, failed1, escaped,
                   threadvars, screenvars>>
    /\ UNCHANGED nonsplash

\* Phase 5, lines 377-394.
Phase5 ==
    /\ wpc = "phase5"
    /\ entered' = entered \cup {5}
    /\ \E outcome \in {"ok", "caught", "escaped"} :
          IF outcome = "escaped"
          THEN NoEmit /\ Except
          ELSE /\ Emit(<<92, 95>>)
               /\ wpc' = "completion"
               /\ UNCHANGED <<fin, fin_flag, inbox, escaped>>
    /\ UNCHANGED <<engine, failed1, threadvars, handled, nhandled, closing,
                   nclosed, hold, errbox>>
    /\ UNCHANGED nonsplash

\* Lines 70-93.
Completion ==
    /\ wpc = "completion"
    /\ Emit(<<100>>)
    /\ FinishedEmit(TRUE)
    /\ wpc' = "done"
    /\ UNCHANGED <<entered, engine, failed1, escaped, threadvars, handled,
                   nhandled, closing, nclosed, hold, errbox>>
    /\ UNCHANGED nonsplash

\* The progress thread, line 314: the loop condition.
ThreadLoop ==
    /\ tpc = "loop"
    /\ tpc' = IF ~tstop /\ tidx < Len(Milestones) THEN "body" ELSE "after"
    /\ UNCHANGED <<workervars, plast, pmono, tidx, tpercent, tstop, screenvars>>
    /\ UNCHANGED nonsplash

\* Lines 315-324: the milestone's time has come or not.
ThreadBody ==
    /\ tpc = "body"
    /\ \E due \in BOOLEAN :
          IF due
          THEN /\ Emit(<<Milestones[tidx + 1]>>)
               /\ tpercent' = Milestones[tidx + 1]
               /\ tidx' = tidx + 1
          ELSE NoEmit /\ UNCHANGED <<tpercent, tidx>>
    /\ tpc' = "loop"
    /\ UNCHANGED <<workervars, tstop, screenvars>>
    /\ UNCHANGED nonsplash

\* Lines 326-329: the jump to 88 after the loop.
ThreadAfter ==
    /\ tpc = "after"
    /\ IF ~tstop /\ tpercent < 88
       THEN Emit(<<88>>) /\ tpercent' = 88
       ELSE NoEmit /\ UNCHANGED tpercent
    /\ tpc' = "done"
    /\ UNCHANGED <<workervars, tidx, tstop, screenvars>>
    /\ UNCHANGED nonsplash

\* Faulty variant of CloseGuard: the flag is not looked at.
CloseGuard_Open == TRUE

\* Lines 934-936 of _close_splash.
CloseGuard == ~closing

\* SplashScreen._close_splash, as the next-state of the screen's own fields.
close_splash ==
    IF CloseGuard
    THEN /\ closing' = TRUE
         /\ hold' = IF hold = "none" THEN "none" ELSE "stopped"
         /\ nclosed' = nclosed + 1
    ELSE UNCHANGED <<closing, hold, nclosed>>

\* Lines 890-892 of _on_init_finished.
HandledGuard == ~handled

\* SplashScreen._on_init_finished(success, message)
on_init_finished(success) ==
    IF HandledGuard
    THEN /\ handled' = TRUE
         /\ nhandled' = nhandled + 1
         /\ IF success
            THEN hold' = "active" /\ UNCHANGED errbox
            ELSE errbox' = "open" /\ UNCHANGED hold
    ELSE UNCHANGED <<handled, nhandled, hold, errbox>>

\* The worker's finished signal reaches the splash screen.
FinishedDelivered ==
    /\ inbox # <<>>
    /\ inbox' = Tail(inbox)
    /\ on_init_finished(Head(inbox))
    /\ UNCHANGED <<closing, nclosed>>
    /\ UNCHANGED <<workervars, plast, pmono, threadvars>>
    /\ UNCHANGED nonsplash

\* _on_init_finished is called once more, by whatever else is connected.
FinishedAgain ==
    /\ \E success \in BOOLEAN : on_init_finished(success)
    /\ UNCHANGED <<inbox, closing, nclosed>>
    /\ UNCHANGED <<workervars, plast, pmono, threadvars>>
    /\ UNCHANGED nonsplash

\* The hold timer's timeout (single shot), connected to _close_splash.
HoldTimeout ==
    /\ hold = "active"
    /\ IF CloseGuard
       THEN close_splash
       ELSE hold' = "stopped" /\ UNCHANGED <<closing, nclosed>>
    /\ UNCHANGED <<inbox, handled, nhandled, errbox>>
    /\ UNCHANGED <<workervars, plast, pmono, threadvars>>
    /\ UNCHANGED nonsplash

\* The user closes the error box: its finished signal calls _close_splash.
ErrorBoxFinished ==
    /\ errbox = "open"
    /\ errbox' = "closed"
    /\ close_splash
    /\ UNCHANGED <<inbox, handled, nhandled>>
    /\ UNCHANGED <<workervars, plast, pmono, threadvars>>
    /\ UNCHANGED nonsplash

\* A direct call of _close_splash.
DirectClose ==
    /\ close_splash
    /\ UNCHANGED <<inbox, handled, nhandled, errbox>>
    /\ UNCHANGED <<workervars, plast, pmono, threadvars>>
    /\ UNCHANGED nonsplash

NextWorker ==
    \/ StartWorker \/ Phase1 \/ Phase2 \/ Phase3 \/ Phase4Fake \/ Phase4Setup
    \/ CreateReturns \/ CreateDone \/ CreateRaises \/ Phase5 \/ Completion
    \/ ThreadLoop \/ ThreadBody \/ ThreadAfter

NextSplash ==
    \/ StartWorker \/ Phase1 \/ Phase2 \/ Phase3 \/ Phase4Fake \/ Phase4Setup
    \/ CreateReturns \/ CreateDone \/ CreateRaises \/ Phase5 \/ Completion
    \/ FinishedDelivered \/ FinishedAgain \/ HoldTimeout \/ ErrorBoxFinished
    \/ DirectClose

\* ------------------------------------------------------------------------
\* simulation/ui/simulation_window.py: run_all_systems and its queue
\* ------------------------------------------------------------------------
SystemNames == {1, 2, 3}

\* sorted(self.systems.keys())
RECURSIVE SortedNames(_)
SortedNames(set) ==
    IF set = {} THEN <<>>
    ELSE LET least == CHOOSE x \in set : \A y \in set : x <= y
         IN  <<least>> \o SortedNames(set \ {least})

NoWorker == [state |-> "none", chain |-> FALSE]

NoStart == [system |-> 0, by |-> "none", chain |-> FALSE]

RunIdle ==
    /\ systems = {}
    /\ rq = <<>>
    /\ rqset = FALSE
    /\ workers = [x \in SystemNames |-> NoWorker]
    /\ sigs = <<>>
    /\ lastStart = NoStart

\* The window is given its systems.
AddSystems ==
    /\ systems = {}
    /\ \E set \in SUBSET SystemNames : set # {} /\ systems' = set
    /\ UNCHANGED <<rq, rqset, workers, sigs, lastStart>>
    /\ UNCHANGED nonrun

\* run_system(name): it returns early (the system is missing or busy, or an
\* input check of lines 2973-2998 or the except clause of line 3088 ends
\* it), or it stores and starts a SimWorker. by: who called, chain: whether
\* the done signal that led here came from a worker of run_all's chain.
run_system(name, by, chain, early) ==
    IF name \notin systems \/ workers[name].state = "running" \/ early
    THEN UNCHANGED <<workers, lastStart>>
    ELSE /\ workers' = [workers EXCEPT ![name] = [state |-> "running",
                                                 chain |-> by # "user"]]
         /\ lastStart' = [system |-> name, by |-> by, chain |-> chain]

\* MultiSystemSpinachUI.run_all_systems
run_all_systems ==
    /\ systems # {}
    /\ LET system_names == SortedNames(systems) IN
          /\ rq' = Tail(system_names)
          /\ rqset' = TRUE
          /\ \E early \in BOOLEAN :
                run_system(Head(system_names), "run_all", TRUE, early)
    /\ UNCHANGED <<systems, sigs>>
    /\ UNCHANGED nonrun

\* MultiSystemSpinachUI.run_current_system
run_current_system ==
    /\ \E name \in systems, early \in BOOLEAN :
          run_system(name, "user", FALSE, early)
    /\ UNCHANGED <<systems, rq, rqset, sigs>>
    /\ UNCHANGED nonrun

\* SimWorker.run ends: done on success, failed on an exception.
WorkerEnds ==
    /\ Len(sigs) < MaxSignals
    /\ \E name \in systems, kind \in {"done", "failed"} :
          /\ workers[name].state = "running"
          /\ workers' = [workers EXCEPT ![name].state = kind]
          /\ sigs' = Append(sigs, [kind |-> kind, system |-> name,
                                   chain |-> workers[name].chain])
    /\ UNCHANGED <<systems, rq, rqset, lastStart>>
    /\ UNCHANGED nonrun

\* MultiSystemSpinachUI.on_simulation_done
on_simulation_done ==
    /\ sigs # <<>>
    /\ Head(sigs).kind = "done"
    /\ sigs' = Tail(sigs)
    /\ IF rqset /\ rq # <<>>
       THEN /\ rq' = Tail(rq)
            /\ UNCHANGED rqset
            /\ \E early \in BOOLEAN :
                  run_system(Head(rq), "queue", Head(sigs).chain, early)
       ELSE /\ rqset' = FALSE
            /\ UNCHANGED <<rq, workers, lastStart>>
    /\ UNCHANGED systems
    /\ UNCHANGED nonrun

\* MultiSystemSpinachUI.on_simulation_failed
on_simulation_failed ==
    /\ sigs # <<>>
    /\ Head(sigs).kind = "failed"
    /\ sigs' = Tail(sigs)
    /\ UNCHANGED <<systems, rq, rqset, workers, lastStart>>
    /\ UNCHANGED nonrun

NextRun ==
    \/ AddSystems
    \/ run_all_systems
    \/ run_current_system
    \/ WorkerEnds
    \/ on_simulation_done
    \/ on_simulation_failed

\* ------------------------------------------------------------------------
\* Specifications
\* ------------------------------------------------------------------------
Init ==
    /\ FidIdle /\ StickIdle /\ BuildIdle /\ HamIdle /\ ProcIdle /\ TaskIdle
    /\ MonitorIdle /\ SplashIdle /\ RunIdle

SpecFid == Init /\ [][NextFid]_vars

SpecStick == Init /\ [][NextStick]_vars

SpecBuild == Init /\ [][NextBuild]_vars

SpecHam == Init /\ [][NextHam]_vars

SpecProc == Init /\ [][NextProc]_vars

SpecCache == Init /\ [][NextCache]_vars

SpecTask == Init /\ [][NextTask]_vars

SpecMonitor == Init /\ [][NextMonitor]_vars

SpecWorker == Init /\ [][NextWorker]_vars

SpecSplash == Init /\ [][NextSplash]_vars

SpecRun == Init /\ [][NextRun]_vars

\* ------------------------------------------------------------------------
\* Claims about the trajectory generator (checked under SpecFid)
\* ------------------------------------------------------------------------
Occurrences(seq, x) == Cardinality({p \in 1..Len(seq) : seq[p] = x})

\* U^n . r . (U^dagger)^n, the state after n free-evolution steps.
Evolved(r, e) == Pow(propagate, e) \o r \o Pow(ConjT(propagate), e)

\* Number of samples the executing call has recorded in the current row.
Recorded == IF pc = "advance" THEN k + 1 ELSE k

\* C1: in simulation.fid, sample k is recorded from the density matrix after
\* exactly k applications of rho <- U.rho.U^dagger to the pulse-prepared
\* state (record before advance), exactly npoints samples are recorded, and
\* fid[0] is the trace of the unevolved pulse-prepared state with decay 1.
Thm_C1_FidSamples ==
    /\ active = "fid" =>
          /\ rho = Evolved(rho_pulse, k)
          /\ \A kk \in 0..(cfg.npoints - 1) :
                fid[<<0, kk>>] = IF kk < Recorded
                                 THEN Sample(Evolved(rho_pulse, kk), kk,
                                             cfg.rate, t2star)
                                 ELSE Zero
    /\ res["fid"].status = "returned" =>
          LET out == res["fid"].fid IN
          /\ DOMAIN out = {0} \X (0..(cfg.npoints - 1))
          /\ Cardinality(DOMAIN out) = cfg.npoints
          /\ \A kk \in 0..(cfg.npoints - 1) :
                /\ out[<<0, kk>>].rho = Evolved(rho_pulse, kk)
                /\ out[<<0, kk>>].num = -kk
                /\ out[<<0, kk>>].den # 0
          /\ cfg.npoints >= 1 =>
                /\ out[<<0, 0>>].rho = rho_pulse
                /\ out[<<0, 0>>].num = 0

Wit_C1_FidSamples ==
    /\ res["fid"].status = "returned"
    /\ cfg.npoints >= 3
    /\ res["fid"].fid[<<0, 2>>].rho = Evolved(rho_pulse, 2)

\* C2: in fid2d and fid2d_MQ the indirect-dimension operator used at outer
\* increment j is the j-th power of the single-step operator (identity at 0),
\* that operator is exponentiated once, and the number of matrix
\* exponentials of a call does not grow inside the loops.
Thm_C2_CumulativeT1 ==
    /\ active \in {"fid2d", "fid2d_MQ"} =>
          /\ t1_evo = Pow(T1StepEvo, i)
          /\ Len(t1used) = (IF pc = "outer" THEN i ELSE i + 1)
          /\ \A j \in 1..Len(t1used) : t1used[j] = Pow(T1StepEvo, j - 1)
          /\ Occurrences(expmLog, "t1") = 1
          /\ Len(expmLog) <= 5
    /\ \A mth \in {"fid2d", "fid2d_MQ"} :
          res[mth].status = "returned" =>
             /\ Len(res[mth].t1used) = (IF cfg.np1 > 0 THEN cfg.np1 ELSE 0)
             /\ \A j \in 1..Len(res[mth].t1used) :
                   res[mth].t1used[j] = Pow(T1StepEvo, j - 1)
             /\ Occurrences(res[mth].expm, "t1") = 1
             /\ Len(res[mth].expm) <= 5

Wit_C2_CumulativeT1 ==
    /\ res["fid2d"].status = "returned"
    /\ res["fid2d_MQ"].status = "returned"
    /\ Len(res["fid2d"].t1used) = 3
    /\ res["fid2d_MQ"].t1used[3] = T1StepEvo \o T1StepEvo
    /\ cfg.npoints >= 1

\* What was done to a density matrix after the loops started: the factors
\* to the left and to the right of the starting matrix `start` inside w.
RhoAt(w) == CHOOSE p \in 1..Len(w) : w[p] = "rho0"
Downstream(w, start) ==
    LET lo == RhoAt(w) - RhoAt(start)
        hi == lo + Len(start)
    IN  IF Occurrences(w, "rho0") = 1 /\ lo >= 0 /\ hi <= Len(w)
           /\ SubSeq(w, lo + 1, hi) = start
        THEN [ok |-> TRUE, left |-> SubSeq(w, 1, lo),
              right |-> SubSeq(w, hi + 1, Len(w))]
        ELSE [ok |-> FALSE, left |-> <<>>, right |-> <<>>]

\* The samples of an MQ array agree with those of a plain 2D array once the
\* respective starting matrices are taken out.
SameDownstream(mq, plain) ==
    \A key \in DOMAIN mq :
       mq[key] # Zero =>
          /\ key \in DOMAIN plain
          /\ plain[key] # Zero
          /\ mq[key].num = plain[key].num
          /\ Downstream(plain[key].rho, rho_pulse).ok
          /\ \E tm \in TmArgs :
                /\ Downstream(mq[key].rho, RhoExc(tm)).ok
                /\ Downstream(mq[key].rho, RhoExc(tm))
                      = Downstream(plain[key].rho, rho_pulse)

\* C3: fid2d_MQ applies U_exc = U_pulse.exp(-iH.t_mix).U_pulse once, to the
\* initial density matrix and before the loop; from there on its steps are
\* those of fid2d.
Thm_C3_MQDownstream ==
    /\ active = "fid2d_MQ" =>
          /\ \E tm \in TmArgs : rho = U_exc(tm) \o rho0 \o ConjT(U_exc(tm))
          /\ Occurrences(expmLog, "tm") = 1
    /\ res["fid2d"].status = "returned" =>
          /\ active = "fid2d_MQ" =>
                SameDownstream(fid, res["fid2d"].fid)
          /\ res["fid2d_MQ"].status = "returned" =>
                /\ SameDownstream(res["fid2d_MQ"].fid, res["fid2d"].fid)
                /\ DOMAIN res["fid2d_MQ"].fid = DOMAIN res["fid2d"].fid
                /\ res["fid2d_MQ"].t1used = res["fid2d"].t1used

Wit_C3_MQDownstream ==
    /\ res["fid2d"].status = "returned"
    /\ res["fid2d_MQ"].status = "returned"
    /\ cfg.np1 >= 2
    /\ cfg.npoints >= 2
    /\ res["fid2d_MQ"].fid[<<1, 1>>] # Zero

\* C11: a call of fid, fid2d or fid2d_MQ that returns has computed exactly
\* one matrix exponential for the pulse propagator and exactly one for the
\* free-evolution propagator, whatever npoints and Np1 are.
CE_C11_ExpmOnce ==
    \A mth \in Methods :
       res[mth].status = "returned" =>
          /\ Occurrences(res[mth].expm, "pulse") = 1
          /\ Occurrences(res[mth].expm, "free") = 1

CE_C8_ConfigErrors ==
    \A mth \in Methods :
       res[mth].status = "returned" =>
          /\ res[mth].t2star > 0
          /\ cfg.rate > 0
          /\ cfg.npoints > 0
          /\ (mth # "fid" => cfg.np1 > 0)

\* ------------------------------------------------------------------------
\* Claims about the stick-spectrum generators (checked under SpecStick)
\* ------------------------------------------------------------------------
Is2d == gen = "freq_domain_2d"

\* C4 as stated: every tuple yielded has f1 and f2 above tol_hz and |w|
\* above min_weight, whatever tol_hz is.
CE_C4_FilterAlways ==
    lastNext = "yield" =>
       /\ last.f1 > tol_hz
       /\ last.f2 > tol_hz
       /\ last.w > min_weight

\* C4, amended: every tuple yielded has |w| above min_weight and carries the
\* frequencies of the index pairs the generator is at; the frequencies are
\* never negative and are above tol_hz whenever tol_hz is not zero (the
\* comparison is made for tol_hz > 0 only).
Thm_C4_FilterWhenPositive ==
    lastNext = "yield" =>
       /\ last.w > min_weight
       /\ last.f1 = Freq(a, b)
       /\ last.f2 = Freq(m, n)
       /\ last.f1 >= 0 /\ last.f2 >= 0
       /\ tol_hz # 0 => (last.f1 > tol_hz /\ last.f2 > tol_hz)

Wit_C4_FilterWhenPositive ==
    /\ lastNext = "yield"
    /\ tol_hz = 1
    /\ dim = 4
    /\ last.f1 = 2
    /\ last.f2 = 3

\* C5: for every max_count, 0 and negative values included, at most
\* max_count tuples are yielded.
CE_C5_AtMostMaxCount ==
    gen # "none" => yields <= (IF max_count > 0 THEN max_count ELSE 0)

\* Position of the running generator in its nested loops.
Rank ==
    LET outer  == IF Is2d THEN m * dim + n ELSE a * dim + b
        inner  == IF Is2d THEN a * dim + b ELSE m * dim + n
    IN  outer * (dim * dim + 2) + (IF gpc = "inner" THEN 1 + inner ELSE 0)

\* Place of an index pair among the d.(d-1) pairs of distinct indices, and of
\* an index tuple among the (d.(d-1))^2 candidates, in the nested order.
PairOrd(x, y) == x * (dim - 1) + (IF y < x THEN y ELSE y - 1)
Ordinal(t) ==
    IF Is2d
    THEN PairOrd(t[3], t[4]) * (dim * (dim - 1)) + PairOrd(t[1], t[2]) + 1
    ELSE PairOrd(t[1], t[2]) * (dim * (dim - 1)) + PairOrd(t[3], t[4]) + 1

\* C6: the generators are finite, ordered, single-pass sequences: the index
\* tuples reached have a # b and m # n and come in strictly increasing nested
\* order, so none is reached twice and at most (d.(d-1))^2 are; every step of
\* a running generator moves its loops forward; and a generator that has
\* ended yields nothing more.
Thm_C6_SinglePass ==
    /\ [](cur # NoVisit =>
             /\ cur[1] # cur[2] /\ cur[3] # cur[4]
             /\ \A x \in 1..4 : cur[x] \in 0..(dim - 1)
             /\ Ordinal(cur) >= 1
             /\ Ordinal(cur) <= (dim * (dim - 1)) * (dim * (dim - 1)))
    /\ [](gstate = "suspended" => cur = <<a, b, m, n>>)
    /\ [][(gstate \in {"running", "suspended"} /\ gstate' = "running")
             => Rank' > Rank]_vars
    /\ [][(cur' # cur /\ cur # NoVisit) => Ordinal(cur') > Ordinal(cur)]_vars
    /\ [][gstate = "ended" =>
             (gstate' = "ended" /\ yields' = yields /\ lastNext' = "stop")]_vars

Wit_C6_SinglePass ==
    /\ gstate = "ended"
    /\ dim = 4
    /\ Ordinal(cur) = 144
    /\ yields = 2

\* C7 as stated: freq_domain computes an entry for every ordered pair of
\* distinct eigenstates, d.(d-1) entries.
CE_C7_OrderedPairs ==
    sticks.done =>
       /\ Len(sticks.f) = dim * (dim - 1)
       /\ \A x \in 0..(dim - 1), y \in 0..(dim - 1) :
             x # y => \E q \in 1..Len(sticks.idx) : sticks.idx[q] = <<x, y>>

\* C7, amended: freq_domain returns one (frequency, weight) entry for every
\* unordered pair of distinct eigenstates, d.(d-1)/2 entries: the entry of
\* the pair x < y has f = |E_y - E_x| / (2.pi) and w = rho[x,y].O[y,x], and
\* there is no separate entry for (y, x).
Thm_C7_UnorderedPairs ==
    sticks.done =>
       /\ Len(sticks.f) = (dim * (dim - 1)) \div 2
       /\ Len(sticks.w) = Len(sticks.f)
       /\ \A x \in 0..(dim - 1), y \in 0..(dim - 1) :
             LET at == {q \in 1..Len(sticks.idx) : sticks.idx[q] = <<x, y>>}
             IN  IF x < y
                 THEN /\ Cardinality(at) = 1
                      /\ \A q \in at :
                            /\ sticks.f[q] = Abs(evals[y] - evals[x])
                            /\ sticks.w[q] = [rho |-> <<x, y>>,
                                              obs |-> <<y, x>>]
                 ELSE at = {}

Wit_C7_UnorderedPairs ==
    /\ sticks.done
    /\ dim = 4
    /\ Len(sticks.f) = 6
    /\ sticks.f[1] = 2

\* ------------------------------------------------------------------------
\* Claims about construction (checked under SpecBuild)
\* ------------------------------------------------------------------------
HasUnknown == \E q \in 1..Len(isos) : isos[q] \notin {"1H", "13C", "15N"}

\* C9: an isotope list with a label outside {1H, 13C, 15N}, at any position,
\* makes the constructor of calculation, operation or simulation raise the
\* unknown-nucleus error as its first step, before any operator table,
\* Hamiltonian or propagator exists; a list of known labels never raises it.
Thm_C9_UnknownNucleus ==
    /\ (cls # "none" /\ HasUnknown) =>
          /\ made = <<>>
          /\ gamma = <<>>
          /\ hres.status = "none"
          /\ bpc \in {Steps(cls)[1], "raised"}
          /\ bpc = "raised" => err = "ValueError: Unknown nucleus"
    /\ (cls # "none" /\ ~HasUnknown) =>
          /\ err # "ValueError: Unknown nucleus"
          /\ bpc \notin {Steps(cls)[1], "idle", "raised"} => Len(gamma) = Len(isos)
    /\ err = "ValueError: Unknown nucleus" => HasUnknown

Wit_C9_UnknownNucleus ==
    /\ cls = "operation"
    /\ isos = <<"1H", "2H">>
    /\ err = "ValueError: Unknown nucleus"
    /\ bpc = "raised"

\* C10: no Hamiltonian is returned for a coupling matrix whose size differs
\* from the isotope count.
CE_C10_DimensionMismatch ==
    /\ hres.status = "returned" => jsize = Len(isos)
    /\ (cls = "operation" /\ bpc = "done") => jsize = Len(isos)



\* ------------------------------------------------------------------------
\* Claims about the Hamiltonian matrices
\* ------------------------------------------------------------------------
\* C13: H_coupling indexes J only at <<i, j>> with i < j, every unordered
\* pair of distinct spins exactly once, and coupling matrices that agree on
\* the strict upper triangle give the same coupling Hamiltonian.
Thm_C13_UpperTriangleOnly ==
    mham.kind = "H_coupling" =>
       LET cnt == Len(msys.isos) IN
       /\ \A q \in 1..Len(mham.reads) : mham.reads[q][1] < mham.reads[q][2]
       /\ \A rc \in UpperIdx(cnt) : Occurrences(mham.reads, rc) = 1
       /\ 2 * Len(mham.reads) = cnt * (cnt - 1)
       /\ \A J2 \in JMats(cnt) :
             (\A rc \in UpperIdx(cnt) : J2[rc] = msys.J[rc]) =>
                H_coupling_mat([msys EXCEPT !.J = J2]).H = mham.H

Wit_C13_UpperTriangleOnly ==
    /\ mham.kind = "H_coupling"
    /\ Len(msys.isos) = 2
    /\ msys.J[<<0, 1>>] = 1
    /\ msys.J[<<1, 0>>] = 2
    /\ mham.H # MZeros(4)

\* C18: the matrix returned by H_total (and by each of its two terms) equals
\* its own conjugate transpose, for every isotope list of known labels, real
\* coupling matrix (symmetric or not) and real field.
Thm_C18_Hermitian ==
    mham.kind # "none" => mham.H = MConjT(mham.H)

Wit_C18_Hermitian ==
    /\ mham.kind = "H_total"
    /\ Len(msys.isos) = 2
    /\ msys.isos[1] # msys.isos[2]
    /\ msys.J[<<0, 1>>] = 1
    /\ msys.J[<<1, 0>>] = 2
    /\ msys.B = 1
    /\ \E rc \in Idx(4) : rc[1] # rc[2] /\ mham.H.e[rc] # CZero

\* A frequency in Hz as freq_domain's result holds it here (times 4, in
\* units of 10 Hz).
StoredHz(hz) == (4 * hz) \div 10

\* The two-spin system of the scenario: two protons, J12 = 10 Hz, zero field.
ProtonPair ==
    /\ msys.isos = <<"1H", "1H">>
    /\ msys.J[<<0, 1>>] = 1
    /\ msys.B = 0

EntriesAt(hz) == {q \in 1..Len(mstick.f) : mstick.f[q] = StoredHz(hz)}

Thm_C14_HalvesFirstOnly ==
    LET r == pres["apodisation"] IN
    /\ (r.status \notin {"none", "no input"} /\ Len(pin) >= 1) =>
          r.status = "returned"
    /\ r.status = "returned" =>
          /\ Len(r.out) = Len(pin)
          /\ Len(pin) >= 1
          /\ r.out[1].v = pin[1].v
          /\ r.out[1].halves = 1
          /\ r.out[1].exp[1] = 0
          /\ \A q \in 2..Len(pin) :
                /\ r.out[q].v = pin[q].v
                /\ r.out[q].halves = 0
                /\ REq(r.out[q].exp, <<-r.arg * (q - 1), Len(pin) - 1>>)

Wit_C14_HalvesFirstOnly ==
    /\ pres["apodisation"].status = "returned"
    /\ Len(pin) = 3
    /\ pres["apodisation"].arg = 1
    /\ REq(pres["apodisation"].out[2].exp, <<-1, 2>>)

\* C15: for an FID of length L >= 1 and a zero-fill length N >= 1 (smaller
\* than, equal to or larger than L; None stands for L) fft returns exactly
\* N points, and freq returns as many points as the spectrum it is given.
Thm_C15_SpectrumLength ==
    /\ (pres["fft"].status \notin {"none", "no input"} /\ pres["fft"].arg >= 1)
          => /\ pres["fft"].status = "returned"
             /\ Len(pres["fft"].out) = pres["fft"].arg
    /\ pres["freq"].status = "returned" =>
          /\ Len(pres["freq"].out) = Len(pres["fft"].out)
          /\ Len(pres["freq"].out) = pres["fft"].arg

Wit_C15_SpectrumLength ==
    /\ pres["freq"].status = "returned"
    /\ Len(pin) = 3
    /\ pres["fft"].arg = 2
    /\ Len(pres["freq"].out) = 2

\* C16: for a spectrum of any length N >= 1, even or odd, the axis of
\* SignalProcessor.freq with dt = 1/sweep is the axis of data.freq with
\* offset 0: N points, point q at -sweep/2 + q * sweep/N.
CE_C16_SameAxis ==
    LET fa == pres["freq"]
        da == pres["data.freq"]
    IN  (fa.status = "returned" /\ da.status = "returned" /\ fa.arg = da.arg)
          => /\ Len(fa.out) = Len(da.out)
             /\ \A q \in 1..Len(fa.out) :
                   /\ REq(fa.out[q], da.out[q])
                   /\ REq(fa.out[q],
                          <<(2 * (q - 1) - Len(fa.out)) * fa.arg,
                            2 * Len(fa.out)>>)


\* ------------------------------------------------------------------------
\* TaskManager's cache
\* ------------------------------------------------------------------------
IdsOf(dict) == {dict[q].task_id : q \in 1..Len(dict)}

\* After a create_task or import_tasks call, the tasks the call removed.
Removed == {q \in 1..Len(tcall.full) : tcall.full[q].task_id \notin IdsOf(tasks)}

Kept == {q \in 1..Len(tcall.full) : tcall.full[q].task_id \in IdsOf(tasks)}

\* C19: after every create_task and every import_tasks call the manager
\* holds at most max_cache_size tasks, the tasks removed are those with the
\* smallest created_at, whatever their status, and with max_cache_size >= 1
\* a task create_task made is itself retained.
CE_C19_CacheBound ==
    tcall.op \in {"create_task", "import_tasks"} =>
        /\ Len(tasks) <= max_cache_size
        /\ \A r \in Removed, q \in Kept :
              tcall.full[r].created_at <= tcall.full[q].created_at
        /\ (tcall.op = "create_task" /\ max_cache_size >= 1)
              => tcall.id \in IdsOf(tasks)


\* C20: set_task_result on an existing task stores the result; a task whose
\* status is not FAILED is left COMPLETED with progress 100 and a completion
\* timestamp, a FAILED task stays FAILED; on an unknown task id nothing
\* changes and nothing is raised.
Thm_C20_SetTaskResult ==
    [][\A id \in CallIds :
          set_task_result(id) =>
              /\ tcall'.raised = FALSE
              /\ IF Pos(tasks, id) = 0 THEN tasks' = tasks
                 ELSE LET old == tasks[Pos(tasks, id)]
                          new == tasks'[Pos(tasks, id)]
                      IN  /\ Len(tasks') = Len(tasks)
                          /\ new.task_id = id
                          /\ new.result = "r"
                          /\ old.status # "failed" =>
                                /\ new.status = "completed"
                                /\ new.progress = 100
                                /\ new.completed_at # None
                          /\ old.status = "failed" => new.status = "failed"]_vars

\* set_task_result has completed a task that had been started earlier.
Wit_C20_SetTaskResult ==
    /\ tcall.op = "set_task_result"
    /\ Pos(tasks, tcall.id) # 0
    /\ LET task == tasks[Pos(tasks, tcall.id)]
       IN  /\ task.status = "completed"
           /\ task.result = "r"
           /\ task.progress = 100
           /\ task.started_at # None
           /\ task.completed_at = now
           /\ task.completed_at > task.started_at


\* ------------------------------------------------------------------------
\* Claims about TaskMonitor and the life of a task
\* ------------------------------------------------------------------------
Terminal == {"completed", "failed", "cancelled"}

\* The poll reaches get_status_func: the task is monitored, within
\* max_poll_time and held by the manager.
Reaches(id) ==
    /\ monitoring[id].on
    /\ now - monitoring[id].start_time <= max_poll_time
    /\ Pos(tasks, id) # 0

TerminalAfter(id) ==
    /\ Pos(tasks', id) # 0
    /\ tasks'[Pos(tasks', id)].status \in Terminal

CE_C22_CallbackOnChange ==
    [][\A id \in MonIds, info \in StatusInfos :
          (poll_once(id, info) /\ monitoring[id].on /\ Pos(tasks, id) # 0) =>
              (pcall'.called <=> tasks'[Pos(tasks', id)].status # cbs[id])]_vars

\* C22, amended: a poll that reaches the status check calls the callback
\* exactly when the task's status after the poll differs from the status the
\* callback got last in this session, and passes that status, so two
\* callbacks in a row never carry the same status and a poll that changes
\* only the progress of an already reported status calls nothing; a poll
\* that ends on the time limit or on a missing task calls nothing.
Thm_C22_CallbackOnChange ==
    [][\A id \in MonIds, info \in StatusInfos :
          poll_once(id, info) =>
              IF Reaches(id)
              THEN LET after == tasks'[Pos(tasks', id)] IN
                      /\ pcall'.called <=> after.status # cbs[id]
                      /\ pcall'.called =>
                            /\ pcall'.arg = after.status
                            /\ pcall'.arg # cbs[id]
                            /\ cbs'[id] = pcall'.arg
                      /\ cbs[id] = "None" => pcall'.called
                      /\ (after.status = tasks[Pos(tasks, id)].status
                            /\ cbs[id] = after.status) => ~pcall'.called
              ELSE ~pcall'.called /\ cbs' = cbs]_vars

\* A poll has raised the progress of a running task that the callback had
\* already been told about, and called nothing.
Wit_C22_CallbackOnChange ==
    /\ pcall.ret = "True"
    /\ pcall.got = "status"
    /\ ~pcall.called
    /\ cbs["t1"] = "running"
    /\ Pos(tasks, "t1") # 0
    /\ tasks[Pos(tasks, "t1")].status = "running"
    /\ tasks[Pos(tasks, "t1")].progress = 25

\* C26: when get_status_func raises or returns a status string that is no
\* TaskStatus value, poll_once raises nothing, leaves the task's status,
\* progress and error as they were and returns True as long as the task is
\* not terminal.
Thm_C26_BadStatusIgnored ==
    [][\A id \in MonIds, info \in StatusInfos :
          (poll_once(id, info) /\ Reaches(id)
             /\ (info.kind = "raise"
                   \/ (info.kind = "dict" /\ info.status = "error"))) =>
              LET before == tasks[Pos(tasks, id)] IN
                 /\ ~pcall'.raised
                 /\ Pos(tasks', id) = Pos(tasks, id)
                 /\ tasks'[Pos(tasks, id)].status = before.status
                 /\ tasks'[Pos(tasks, id)].progress = before.progress
                 /\ tasks'[Pos(tasks, id)].error = before.error
                 /\ before.status \notin Terminal =>
                       pcall'.ret = "True" /\ monitoring'[id].on]_vars

\* A poll got the status 'error' for a running task with progress 25 and
\* went on.
Wit_C26_BadStatusIgnored ==
    /\ pcall.got = "bad status"
    /\ pcall.ret = "True"
    /\ monitoring["t1"].on
    /\ Pos(tasks, "t1") # 0
    /\ tasks[Pos(tasks, "t1")].status = "running"
    /\ tasks[Pos(tasks, "t1")].progress = 25
    /\ tasks[Pos(tasks, "t1")].error = "None"

\* C27: once a task's status is terminal, update_task_status,
\* set_task_result, cancel_task and poll_once change neither its status nor
\* its completed_at.
CE_C27_TerminalIsFinal ==
    [][\A id \in CallIds :
          (/\ tcall'.op \in {"update_task_status", "set_task_result"}
           /\ Pos(tasks, id) # 0
           /\ Pos(tasks', id) # 0
           /\ tasks[Pos(tasks, id)].status \in Terminal) =>
              /\ tasks'[Pos(tasks', id)].status = tasks[Pos(tasks, id)].status
              /\ tasks'[Pos(tasks', id)].completed_at =
                    tasks[Pos(tasks, id)].completed_at]_vars


\* ------------------------------------------------------------------------
\* Claims about the splash screen and its worker
\* ------------------------------------------------------------------------
\* C23: run emits finished exactly once; the value is False exactly when
\* phase 1 failed or an exception escaped a phase; after a failed phase 1
\* none of the phases 2 to 5 is entered and MATLAB is never started.
Thm_C23_FinishedOnce ==
    /\ Len(fin) <= 1
    /\ wpc = "done" =>
          /\ Len(fin) = 1
          /\ fin[1] = FALSE <=> (failed1 \/ escaped)
    /\ failed1 => (entered = {1} /\ ~engine /\ tpc = "none")

\* run has ended on a failed phase 1.
Wit_C23_FinishedOnce ==
    /\ wpc = "done"
    /\ failed1
    /\ fin = <<FALSE>>
    /\ entered = {1}

\* C24: the splash screen handles the end of the initialization at most
\* once and emits closed at most once, whatever events arrive and however
\* often.
Thm_C24_ClosedOnce == nhandled <= 1 /\ nclosed <= 1

\* The worker's failure was handled, the error box closed the splash, and
\* both guards are shut.
Wit_C24_ClosedOnce ==
    /\ nhandled = 1
    /\ nclosed = 1
    /\ handled
    /\ closing
    /\ errbox = "closed"
    /\ fin = <<FALSE>>
    /\ inbox = <<>>

\* C28: the values emitted on progress_percent never go down, and after a
\* successful run the last one is 100.
CE_C28_ProgressMonotone ==
    /\ pmono
    /\ (wpc = "done" /\ fin = <<TRUE>>) => plast = 100


\* ------------------------------------------------------------------------
\* Claims about run_all_systems
\* ------------------------------------------------------------------------
Quiet == sigs = <<>> /\ \A x \in SystemNames : workers[x].state # "running"

\* C25: run_all_systems runs the systems one after the other in sorted
\* order, the next one only on the done signal of the one before; every
\* queued system gets started, also after a failure or an early return of
\* run_system, so the window never comes to rest with systems still queued;
\* and no queued system is started on the done signal of a run that
\* run_all_systems did not start.
CE_C25_QueueDrained ==
    /\ \A p \in 1..Len(rq) : \A q \in 1..Len(rq) : p < q => rq[p] < rq[q]
    /\ Quiet => rq = <<>>
    /\ lastStart.by = "queue" => lastStart.chain

====
